---- MODULE Spec2Model ----
(***************************************************************************)
(* Verification model of the OSPF compliance test automation:              *)
(*   utils/results.py       TestResultCollector                            *)
(*   utils/connectivity.py  run_command_on_device(s)                       *)
(*   utils/parameters.py    save/load of the parameters file               *)
(*   utils/runner.py        handle_test_execution_mode                     *)
(*   jobfiles/verify_iosxe_ospf_ipv4_neighbors_ip_addresses.py             *)
(*                          gather_current_state and the comparator        *)
(*                                                                         *)
(* Python dictionaries are functions; a dictionary is iterated in the      *)
(* order of DeviceNames / InterfaceNames / NeighborIds, which stands for   *)
(* the insertion order of the testbed and of the parsed data.  A result    *)
(* message is a record: "text" is the fixed wording of the f-string and    *)
(* the other fields are the values the f-string interpolates.              *)
(*                                                                         *)
(* The pyATS result API (self.passed / self.failed) and the passing and    *)
(* failing callables are calls into the framework; they are modelled as    *)
(* calls that are counted and return to the caller, except in              *)
(* SpecCallables, where a callable may also raise.                         *)
(*                                                                         *)
(* Specifications:                                                         *)
(*   SpecCollector  add_result calls on a collector of its own             *)
(*   Spec           one invocation of handle_test_execution_mode           *)
(*   SpecLive       Spec under weak fairness of its steps                  *)
(*   SpecCallables  Spec with callables that return or raise               *)
(*   SpecRoundTrip  a learning run followed by a testing run               *)
(*   SpecCompare    the comparator on every pair of trees of the model     *)
(*   SpecNeighbor   the comparator on one neighbor's attribute values      *)
(*   SpecGather     gather_current_state on every dispatch result          *)
(*   SpecConnect    the connect phase and the connectivity check           *)
(*   SpecTargets    run_command_on_devices called with its own arguments   *)
(*                                                                         *)
(* The parameters file holds what json.dump wrote: the members of each     *)
(* object in order; json.load rebuilds the dictionaries from them.         *)
(***************************************************************************)
EXTENDS Integers, Sequences, FiniteSets, TLC

\* ------------------------------------------------------------------ bounds
\* Largest number of devices in the testbed.
NumDevices == 2
\* Largest number of records appended in the collector-only specification.
MaxResults == 4

\* ------------------------------------------------------------- vocabulary
PASSED == "passed"
FAILED == "failed"
PASSX == "passx"
ABORTED == "aborted"
BLOCKED == "blocked"
SKIPPED == "skipped"
ERRORED == "errored"
INFO == "info"

ResultStatus == {PASSED, FAILED, PASSX, ABORTED, BLOCKED, SKIPPED, ERRORED, INFO}

RunningMode == {"learning", "testing"}

DeviceNames == <<"R1", "R2", "R3", "R4">>
InterfaceNames == <<"Gi0/1", "Gi0/2">>
NeighborIds == <<"10.0.0.2", "10.0.0.3">>

\* The command every job dispatches.
Command == "show ip ospf neighbor"

\* The attribute under test of the ip_addresses job.
Attribute == "address"

EmptyMap == [x \in {} |-> x]

\* str(len(...)) as the f-strings format it.
Decimal(n) == <<"0", "1", "2", "3", "4", "5", "6", "7", "8", "9">>[n + 1]

\* The keys of dictionary d in iteration order, order being the insertion order.
RECURSIVE KeysFrom(_, _, _)
KeysFrom(d, order, i) ==
    IF i > Len(order) THEN <<>>
    ELSE IF order[i] \in DOMAIN d
         THEN <<order[i]>> \o KeysFrom(d, order, i + 1)
         ELSE KeysFrom(d, order, i + 1)

Keys(d, order) == KeysFrom(d, order, 1)

Message(text, device, interface, neighbor, expected, actual) ==
    [text |-> text, device |-> device, interface |-> interface,
     neighbor |-> neighbor, expected |-> expected, actual |-> actual]

PlainMessage(text) == Message(text, "", "", "", "", "")

Result(status, message) == [status |-> status, message |-> message]

\* ------------------------------------------------------------ parsed data
Get(d, key, default) == IF key \in DOMAIN d THEN d[key] ELSE default

\* Parsed "show ip ospf neighbor" data as device.parse returns it.
NeighborData(address) == (Attribute :> address)
InterfaceData(neighbors) == ("neighbors" :> neighbors)
ParsedData(interfaces) == ("interfaces" :> interfaces)

\* No "interfaces" key at all.
DataNoInterfaces == EmptyMap
\* One interface with one neighbor.
DataOneNeighbor(address) ==
    ParsedData("Gi0/1" :> InterfaceData("10.0.0.2" :> NeighborData(address)))
\* One interface with two neighbors.
DataTwoNeighbors ==
    ParsedData("Gi0/1" :> InterfaceData(("10.0.0.2" :> NeighborData("192.0.2.2"))
                                        @@ ("10.0.0.3" :> NeighborData("192.0.2.3"))))
\* A neighbor whose parsed data lacks the attribute under test.
DataNeighborWithoutAttribute ==
    ParsedData("Gi0/1" :> InterfaceData("10.0.0.2" :> EmptyMap))

ParsedOptions ==
    {DataNoInterfaces, DataOneNeighbor("192.0.2.2"), DataOneNeighbor("192.0.2.9"),
     DataTwoNeighbors, DataNeighborWithoutAttribute}

\* What a device does when asked: execute raises, parse raises, or both succeed.
DeviceBehaviours ==
    {[execute_raises |-> TRUE, parse_raises |-> FALSE, data |-> EmptyMap],
     [execute_raises |-> FALSE, parse_raises |-> TRUE, data |-> EmptyMap]}
    \cup {[execute_raises |-> FALSE, parse_raises |-> FALSE, data |-> d] :
             d \in ParsedOptions}

\* The raw text device.execute returns on device name.
RawOutput(name) == <<"output of", name>>

\* --------------------------------------------------------------- variables
VARIABLES
    results,              \* TestResultCollector.results
    command_executions,   \* TestResultCollector.command_executions
    pc,                   \* where the modelled caller stands
    mode,                 \* RunningMode of the run
    testbed,              \* the device names of the testbed, in testbed order
    devices,              \* name -> behaviour of the device behind the adapter
    futures,              \* name -> the task submitted to the thread pool
    dispatch_results,     \* the results dict of run_command_on_devices
    current_state,        \* what current_state_callable returned
    parameters_file,      \* the parameters file on disk
    write_fails,          \* whether opening or writing the parameters file fails
    expected_parameters,  \* what load_parameters_from_file returned
    adapter_parameters,   \* context.testbed_adapter.parameters
    calls,                \* the calls handle_test_execution_mode made, in order
    job_failed_calls,     \* how often the job's methods called self.failed
    execute_calls,        \* name -> how often device.execute was called
    parse_calls,          \* name -> how often device.parse was called
    exception,            \* text of the exception that left the caller, or ""
    report,               \* what CommonCleanup handed to generate_job_report
    connected,            \* name -> device.connected, once the connect phase ran
    callables,            \* what passing_callable and failing_callable do when called
    arguments             \* testbed, device, devices of a call of run_command_on_devices

collectorVars == <<results, command_executions>>
inputVars == <<mode, testbed, devices, write_fails, connected, callables,
               arguments>>
dispatchVars == <<futures, dispatch_results, execute_calls, parse_calls>>
controllerVars == <<current_state, parameters_file, expected_parameters,
                    adapter_parameters, calls, job_failed_calls, exception,
                    report>>

vars == <<results, command_executions, pc, mode, testbed, devices, futures,
          dispatch_results, current_state, parameters_file, write_fails,
          expected_parameters, adapter_parameters, calls, job_failed_calls,
          execute_calls, parse_calls, exception, report, connected,
          callables, arguments>>

\* ------------------------------------------------------ TestResultCollector
\* The scan of TestResultCollector.status scanning from the last record
\* backwards (not the code: the last non-passing record would win).
RECURSIVE StatusScanBackwards(_, _)
StatusScanBackwards(rs, i) ==
    LET j == Len(rs) + 1 - i IN
    IF i > Len(rs) THEN PASSED
    ELSE IF rs[j].status # PASSED /\ rs[j].status # INFO THEN rs[j].status
         ELSE StatusScanBackwards(rs, i + 1)

\* The scan of TestResultCollector.status treating INFO like any other
\* non-passing status (not the code).
RECURSIVE StatusScanCountingInfo(_, _)
StatusScanCountingInfo(rs, i) ==
    IF i > Len(rs) THEN PASSED
    ELSE IF rs[i].status # PASSED THEN rs[i].status
         ELSE StatusScanCountingInfo(rs, i + 1)

\* for result in self.results: the loop of the status property from record i on.
RECURSIVE StatusScan(_, _)
StatusScan(rs, i) ==
    IF i > Len(rs) THEN PASSED
    ELSE IF rs[i].status # PASSED /\ rs[i].status # INFO THEN rs[i].status
         ELSE StatusScan(rs, i + 1)

\* TestResultCollector.status
\* status taken from the last record alone (not the code).
status_of_last_record(rs) ==
    IF rs = <<>> \/ rs[Len(rs)].status \in {PASSED, INFO}
    THEN PASSED
    ELSE rs[Len(rs)].status

status(rs) == StatusScan(rs, 1)

\* TestResultCollector.add_result: the list after the append.
\* add_result putting the new record at the head of the list (not the code).
add_result_prepending(rs, st, message) == <<Result(st, message)>> \o rs

add_result(rs, st, message) == Append(rs, Result(st, message))

\* add_command_execution writing at a position read before another task's
\* append (not the code: the last record would be replaced, an update lost).
add_command_execution_overwriting(ces, device_name, command, output, data) ==
    LET record == [device_name |-> device_name, command |-> command,
                   output |-> output, data |-> data] IN
    IF ces = <<>> THEN <<record>> ELSE [ces EXCEPT ![Len(ces)] = record]

\* TestResultCollector.add_command_execution: the list after the append.
add_command_execution(ces, device_name, command, output, data) ==
    Append(ces, [device_name |-> device_name, command |-> command,
                 output |-> output, data |-> data])

\* ------------------------------------------------------- parameters file
\* A JSON document: a mapping (the ParameterTree) or another JSON value.
JsonDict(tree) == [type |-> "dict", value |-> tree]
JsonList == [type |-> "list", value |-> EmptyMap]
\* The document null, which json.load returns as None.
JsonNull == [type |-> "null", value |-> EmptyMap]

\* The nesting of a ParameterTree: device, interface, "neighbors", neighbor
\* id, attribute; below that a string.
TreeDepth == 5

\* The order in which the keys of any level of a tree were inserted.
JsonKeyOrder ==
    DeviceNames \o InterfaceNames \o <<"neighbors">> \o NeighborIds \o <<Attribute>>

\* json.dump: an object is written as its members, key then value, in the
\* dictionary's iteration order; a string is written as itself.
RECURSIVE JsonDump(_, _)
JsonDump(value, depth) ==
    IF depth = 0 THEN value
    ELSE LET ks == Keys(value, JsonKeyOrder) IN
         [i \in 1..Len(ks) |-> <<ks[i], JsonDump(value[ks[i]], depth - 1)>>]

\* json.load: an object is read into a dictionary member by member, a later
\* member replacing an earlier one of the same key.
RECURSIVE JsonLoad(_, _)
JsonLoad(members, depth) ==
    IF depth = 0 THEN members
    ELSE [k \in {members[i][1] : i \in DOMAIN members} |->
             LET last == CHOOSE i \in DOMAIN members :
                             /\ members[i][1] = k
                             /\ \A j \in DOMAIN members : members[j][1] = k => j <= i
             IN JsonLoad(members[last][2], depth - 1)]

\* The file does not exist.
FileMissing == [kind |-> "missing", type |-> "dict", text |-> <<>>]
\* The file exists and its content is not JSON: json.load raises.
FileMalformed == [kind |-> "malformed", type |-> "dict", text |-> <<>>]
\* The file exists and cannot be opened for reading: open() raises.
FileUnreadable == [kind |-> "unreadable", type |-> "dict", text |-> <<>>]
\* The file json.dump(json.value, f) wrote.
FileWith(json) ==
    [kind |-> "json", type |-> json.type, text |-> JsonDump(json.value, TreeDepth)]

\* bool(value) of a loaded JSON value: an empty mapping and None are false.
Truthy(json) ==
    /\ json.type # "null"
    /\ json.type # "dict" \/ DOMAIN json.value # {}

\* load_parameters_from_file with the open / json.load outside any try block
\* (not the code: the exception would leave the function).
load_parameters_without_try(file) ==
    IF file.kind = "missing" THEN [value |-> JsonDict(EmptyMap), raised |-> ""]
    ELSE IF file.kind = "unreadable"
    THEN [value |-> JsonDict(EmptyMap), raised |-> "PermissionError"]
    ELSE IF file.kind = "malformed"
    THEN [value |-> JsonDict(EmptyMap), raised |-> "JSONDecodeError"]
    ELSE [value |-> [type |-> file.type, value |-> JsonLoad(file.text, TreeDepth)],
          raised |-> ""]

\* load_parameters_from_file: what it returns and the exception that leaves
\* it ("" when it returns).  {} when the file is missing, and {} from the
\* except clause when open() or json.load raises.
load_parameters_from_file(file) ==
    IF file.kind = "missing" THEN [value |-> JsonDict(EmptyMap), raised |-> ""]
    ELSE IF file.kind \in {"unreadable", "malformed"}
    THEN [value |-> JsonDict(EmptyMap), raised |-> ""]
    ELSE [value |-> [type |-> file.type, value |-> JsonLoad(file.text, TreeDepth)],
          raised |-> ""]

\* ------------------------------------------------- run_command_on_device
None == [none |-> TRUE]

CommandExecutionResult(device, command, output, data) ==
    [none |-> FALSE, device |-> device, command |-> command,
     output |-> output, data |-> data]

\* parsed_data.get(name): None for a missing key and for a key mapped to None.
GetResult(parsed_data, name) == Get(parsed_data, name, None)

\* ---------------------------------------------------- gather_current_state
\* "neighbors" in interface_data and interface_data["neighbors"] is not empty
HasNeighbors(interface_data) ==
    /\ "neighbors" \in DOMAIN interface_data
    /\ DOMAIN interface_data["neighbors"] # {}

\* "interfaces" in data and data["interfaces"] is not empty
HasInterfaces(data) ==
    /\ "interfaces" \in DOMAIN data
    /\ DOMAIN data["interfaces"] # {}

\* The INFO record of each neighbor of one interface, from neighbor k on.
RECURSIVE FoundNeighborResults(_, _, _)
FoundNeighborResults(neighbors, ids, k) ==
    IF k > Len(ids) THEN <<>>
    ELSE <<Result(INFO, Message("Found neighbor with IP", "", "", ids[k], "",
                                Get(neighbors[ids[k]], Attribute, "")))>>
         \o FoundNeighborResults(neighbors, ids, k + 1)

\* The INFO records of the interfaces of one device, from interface k on;
\* an interface without neighbors is skipped.
RECURSIVE FoundInterfaceResults(_, _, _)
FoundInterfaceResults(interfaces, names, k) ==
    IF k > Len(names) THEN <<>>
    ELSE (IF HasNeighbors(interfaces[names[k]])
          THEN FoundNeighborResults(interfaces[names[k]]["neighbors"],
                                    Keys(interfaces[names[k]]["neighbors"], NeighborIds), 1)
          ELSE <<>>)
         \o FoundInterfaceResults(interfaces, names, k + 1)

\* device_ospf_data keeping the whole parsed payload of each neighbor
\* (not the code).
device_ospf_data_raw(interfaces) ==
    [ifn \in {x \in DOMAIN interfaces : HasNeighbors(interfaces[x])} |->
        ("neighbors" :>
            [id \in DOMAIN interfaces[ifn]["neighbors"] |->
                interfaces[ifn]["neighbors"][id]])]

\* device_ospf_data: the interfaces with neighbors, each neighbor reduced to
\* the attribute under test ("" when the parsed data lacks it).
device_ospf_data(interfaces) ==
    [ifn \in {x \in DOMAIN interfaces : HasNeighbors(interfaces[x])} |->
        ("neighbors" :>
            [id \in DOMAIN interfaces[ifn]["neighbors"] |->
                (Attribute :> Get(interfaces[ifn]["neighbors"][id], Attribute, ""))])]

GatherState(tree, recs, failed) == [tree |-> tree, results |-> recs, failed |-> failed]

\* One turn of the device loop that drops a device without a result silently
\* (not the code: no FAILED record, no self.failed).
gather_device_silently(acc, name, parsed_data) ==
    LET execution_result == GetResult(parsed_data, name) IN
    IF execution_result.none THEN acc
    ELSE IF ~HasInterfaces(execution_result.data)
    THEN GatherState(acc.tree @@ (name :> EmptyMap),
             Append(acc.results,
                    Result(INFO, Message("No OSPF interfaces found on", name, "", "", "", ""))),
             acc.failed)
    ELSE GatherState(
             acc.tree @@ (name :> device_ospf_data(execution_result.data["interfaces"])),
             (acc.results
              \o FoundInterfaceResults(execution_result.data["interfaces"],
                     Keys(execution_result.data["interfaces"], InterfaceNames), 1))
              \o <<Result(PASSED, Message("Successfully gathered OSPF data from",
                                          name, "", "", "", ""))>>,
             acc.failed)

\* One turn of "for device in context.testbed_adapter.devices.values()".
\* The loop body treating parsed data without interfaces like gathered
\* neighbor data: a PASSED record instead of the INFO one (not the code).
gather_device_passing_empty(acc, name, parsed_data) ==
    LET execution_result == GetResult(parsed_data, name) IN
    IF execution_result.none
    THEN GatherState(acc.tree,
             Append(acc.results,
                    Result(FAILED, Message("No OSPF data found for device", name, "", "", "", ""))),
             acc.failed + 1)
    ELSE IF ~HasInterfaces(execution_result.data)
    THEN GatherState(acc.tree @@ (name :> EmptyMap),
             Append(acc.results,
                    Result(PASSED, Message("Successfully gathered OSPF data from",
                                           name, "", "", "", ""))),
             acc.failed)
    ELSE GatherState(
             acc.tree @@ (name :> device_ospf_data(execution_result.data["interfaces"])),
             (acc.results
              \o FoundInterfaceResults(execution_result.data["interfaces"],
                     Keys(execution_result.data["interfaces"], InterfaceNames), 1))
              \o <<Result(PASSED, Message("Successfully gathered OSPF data from",
                                          name, "", "", "", ""))>>,
             acc.failed)

gather_device(acc, name, parsed_data) ==
    LET execution_result == GetResult(parsed_data, name) IN
    IF execution_result.none
    THEN GatherState(acc.tree,
             Append(acc.results,
                    Result(FAILED, Message("No OSPF data found for device", name, "", "", "", ""))),
             acc.failed + 1)
    ELSE IF ~HasInterfaces(execution_result.data)
    THEN GatherState(acc.tree @@ (name :> EmptyMap),
             Append(acc.results,
                    Result(INFO, Message("No OSPF interfaces found on", name, "", "", "", ""))),
             acc.failed)
    ELSE GatherState(
             acc.tree @@ (name :> device_ospf_data(execution_result.data["interfaces"])),
             (acc.results
              \o FoundInterfaceResults(execution_result.data["interfaces"],
                     Keys(execution_result.data["interfaces"], InterfaceNames), 1))
              \o <<Result(PASSED, Message("Successfully gathered OSPF data from",
                                          name, "", "", "", ""))>>,
             acc.failed)

\* The device loop of gather_current_state from testbed device i on.
RECURSIVE GatherLoop(_, _, _, _)
GatherLoop(acc, names, parsed_data, i) ==
    IF i > Len(names) THEN acc
    ELSE GatherLoop(gather_device(acc, names[i], parsed_data), names, parsed_data, i + 1)

\* ------------------------------ compare_expected_parameters_to_current_state
\* The value test comparing the expected value with itself (not the code: a
\* slip of one name, after which no value ever mismatches).
values_differ_from_self(current_value, expected_value) ==
    expected_value # expected_value

\* The value test treating a neighbor without the attribute as a mismatch
\* (not the code, where None != None is false).
values_differ_or_missing(current_value, expected_value) ==
    current_value # expected_value \/ current_value = "None"

\* if current_neighbor_address != expected_neighbor_address
\* The values an attribute can hold besides plain strings: a str is written
\* as itself, a number or boolean as "#" and its JSON text, and None (what
\* dict.get returns for a missing key, and what a JSON null loads as) as
\* "None"; the four-letter str "None" is not among the modelled values.
PyNone == "None"

\* The numbers among the values, with the number Python compares them by
\* (int 1, float 1.0 and True are the same number; int 2 is another).
NumericValue == ("#1" :> 1) @@ ("#1.0" :> 1) @@ ("#true" :> 1) @@ ("#2" :> 2)

\* str() of a value, as an f-string or a coercing comparison would see it.
TextOf(value) ==
    IF value = "#1" THEN "1"
    ELSE IF value = "#1.0" THEN "1.0"
    ELSE IF value = "#true" THEN "True"
    ELSE IF value = "#2" THEN "2"
    ELSE value

\* The comparison made on the text of the two values (not the code).
values_differ_as_text(current_value, expected_value) ==
    TextOf(current_value) # TextOf(expected_value)

\* current_neighbor_address != expected_neighbor_address: two numbers differ
\* when their numerical values do, any other two values when they are not
\* the same value of the same type.
values_differ(current_value, expected_value) ==
    IF current_value \in DOMAIN NumericValue /\ expected_value \in DOMAIN NumericValue
    THEN NumericValue[current_value] # NumericValue[expected_value]
    ELSE current_value # expected_value

\* The records of the expected neighbors of one interface, from the first of ids on.
RECURSIVE CompareNeighbors(_, _, _, _, _, _)
CompareNeighbors(acc, device, interface, expected_neighbors, actual_neighbors, ids) ==
    IF ids = <<>> THEN acc
    ELSE
      LET neighbor_id == Head(ids)
          current_neighbor_address ==
              Get(actual_neighbors[neighbor_id], Attribute, "None")
          expected_neighbor_address ==
              Get(expected_neighbors[neighbor_id], Attribute, "None")
          step ==
              IF neighbor_id \notin DOMAIN actual_neighbors
              THEN [results |-> Append(acc.results,
                        Result(FAILED, Message("Neighbor not found in current state",
                                               device, interface, neighbor_id, "", ""))),
                    failed |-> acc.failed + 1]
              ELSE IF values_differ(current_neighbor_address, expected_neighbor_address)
              THEN [results |-> Append(acc.results,
                        Result(FAILED, Message("IP address does not match expected",
                                               "", interface, neighbor_id,
                                               expected_neighbor_address,
                                               current_neighbor_address))),
                    failed |-> acc.failed + 1]
              ELSE [results |-> Append(acc.results,
                        Result(PASSED, Message("Neighbor IP address matches expected",
                                               "", "", neighbor_id, "",
                                               current_neighbor_address))),
                    failed |-> acc.failed]
      IN CompareNeighbors(step, device, interface, expected_neighbors,
                          actual_neighbors, Tail(ids))

\* The interface loop appending the neighbor count record after the
\* neighbor records of the interface (not the code).
RECURSIVE CompareInterfacesCountingLast(_, _, _, _, _)
CompareInterfacesCountingLast(acc, device, expected_device_data, current_device_data, names) ==
    IF names = <<>> THEN acc
    ELSE
      LET interface_name == Head(names)
          expected_neighbors ==
              Get(expected_device_data[interface_name], "neighbors", EmptyMap)
          actual_neighbors ==
              Get(current_device_data[interface_name], "neighbors", EmptyMap)
          compared ==
              CompareNeighbors(
                  [results |-> Append(acc.results,
                        Result(PASSED, Message("Found expected interface",
                                               "", interface_name, "", "", ""))),
                   failed |-> acc.failed],
                  device, interface_name, expected_neighbors, actual_neighbors,
                  Keys(expected_neighbors, NeighborIds))
          step ==
              IF interface_name \notin DOMAIN current_device_data
              THEN [results |-> Append(acc.results,
                        Result(FAILED, Message("Interface not found in current state for device",
                                               device, interface_name, "", "", ""))),
                    failed |-> acc.failed + 1]
              ELSE [results |-> Append(compared.results,
                        Result(INFO, Message("Found neighbors, expecting",
                                             "", "", "",
                                             Decimal(Cardinality(DOMAIN expected_neighbors)),
                                             Decimal(Cardinality(DOMAIN actual_neighbors))))),
                    failed |-> compared.failed]
      IN CompareInterfacesCountingLast(step, device, expected_device_data,
                                       current_device_data, Tail(names))

\* The records of the expected interfaces of one device, from the first of names on.
RECURSIVE CompareInterfaces(_, _, _, _, _)
CompareInterfaces(acc, device, expected_device_data, current_device_data, names) ==
    IF names = <<>> THEN acc
    ELSE
      LET interface_name == Head(names)
          expected_neighbors ==
              Get(expected_device_data[interface_name], "neighbors", EmptyMap)
          actual_neighbors ==
              Get(current_device_data[interface_name], "neighbors", EmptyMap)
          step ==
              IF interface_name \notin DOMAIN current_device_data
              THEN [results |-> Append(acc.results,
                        Result(FAILED, Message("Interface not found in current state for device",
                                               device, interface_name, "", "", ""))),
                    failed |-> acc.failed + 1]
              ELSE CompareNeighbors(
                       [results |-> acc.results
                            \o <<Result(PASSED, Message("Found expected interface",
                                                        "", interface_name, "", "", "")),
                                 Result(INFO, Message("Found neighbors, expecting",
                                                      "", "", "",
                                                      Decimal(Cardinality(DOMAIN expected_neighbors)),
                                                      Decimal(Cardinality(DOMAIN actual_neighbors))))>>,
                        failed |-> acc.failed],
                       device, interface_name, expected_neighbors, actual_neighbors,
                       Keys(expected_neighbors, NeighborIds))
      IN CompareInterfaces(step, device, expected_device_data, current_device_data,
                           Tail(names))

\* The device loop leaving at the first expected device that is missing
\* (not the code: break where the code says continue).
RECURSIVE CompareDevicesStoppingAtMissing(_, _, _, _)
CompareDevicesStoppingAtMissing(acc, current, expected, names) ==
    IF names = <<>> THEN acc
    ELSE
      LET expected_device_name == Head(names) IN
      IF expected_device_name \notin DOMAIN current
      THEN [results |-> Append(acc.results,
                Result(FAILED, Message("Expected device not found in current state",
                                       expected_device_name, "", "", "", ""))),
            failed |-> acc.failed + 1]
      ELSE CompareDevicesStoppingAtMissing(
               CompareInterfaces(
                   [results |-> Append(acc.results,
                        Result(PASSED, Message("Found expected device in current state",
                                               expected_device_name, "", "", "", ""))),
                    failed |-> acc.failed],
                   expected_device_name, expected[expected_device_name],
                   current[expected_device_name],
                   Keys(expected[expected_device_name], InterfaceNames)),
               current, expected, Tail(names))

\* The records of the expected devices, from the first of names on.
RECURSIVE CompareDevices(_, _, _, _)
CompareDevices(acc, current, expected, names) ==
    IF names = <<>> THEN acc
    ELSE
      LET expected_device_name == Head(names)
          step ==
              IF expected_device_name \notin DOMAIN current
              THEN [results |-> Append(acc.results,
                        Result(FAILED, Message("Expected device not found in current state",
                                               expected_device_name, "", "", "", ""))),
                    failed |-> acc.failed + 1]
              ELSE CompareInterfaces(
                       [results |-> Append(acc.results,
                            Result(PASSED, Message("Found expected device in current state",
                                                   expected_device_name, "", "", "", ""))),
                        failed |-> acc.failed],
                       expected_device_name, expected[expected_device_name],
                       current[expected_device_name],
                       Keys(expected[expected_device_name], InterfaceNames))
      IN CompareDevices(step, current, expected, Tail(names))

\* str(e) of the AttributeError that expected_parameters.items() raises on a
\* JSON value that is not a mapping.
NotAMappingError == "'list' object has no attribute 'items'"

\* A FAILED record for each device of current that names is not expected to hold.
RECURSIVE UnexpectedDevices(_, _, _)
UnexpectedDevices(acc, expected, names) ==
    IF names = <<>> THEN acc
    ELSE UnexpectedDevices(
             IF Head(names) \in DOMAIN expected THEN acc
             ELSE [results |-> Append(acc.results,
                       Result(FAILED, Message("Unexpected device in current state",
                                              Head(names), "", "", "", ""))),
                   failed |-> acc.failed + 1],
             expected, Tail(names))

\* The comparator walking both ways: after the expected keys it flags the
\* devices of the current state that the baseline does not hold (not the code).
compare_both_ways(current, expected_json) ==
    IF expected_json.type # "dict"
    THEN [results |-> <<>>, failed |-> 0, raised |-> "'list' object has no attribute 'items'"]
    ELSE LET walked == CompareDevices([results |-> <<>>, failed |-> 0], current,
                                      expected_json.value,
                                      Keys(expected_json.value, DeviceNames))
             done == UnexpectedDevices(walked, expected_json.value,
                                       Keys(current, DeviceNames))
         IN [results |-> done.results, failed |-> done.failed, raised |-> ""]

\* compare_expected_parameters_to_current_state(current_state,
\* expected_parameters, context): the records it appends, how often it calls
\* self.failed, and the text of the exception it raises ("" when it returns).
compare_expected_parameters_to_current_state(current, expected_json) ==
    IF expected_json.type # "dict"
    THEN [results |-> <<>>, failed |-> 0, raised |-> NotAMappingError]
    ELSE LET done == CompareDevices([results |-> <<>>, failed |-> 0], current,
                                    expected_json.value,
                                    Keys(expected_json.value, DeviceNames))
         IN [results |-> done.results, failed |-> done.failed, raised |-> ""]

\* ---------------------------------------------------- the state of a run
\* An argument of run_command_on_devices left at its default None, and one
\* that was given: a testbed or a list as the names it yields, a single
\* device as the one name.
NotGiven == [given |-> FALSE, value |-> <<>>]
Given(names) == [given |-> TRUE, value |-> names]

\* No call of run_command_on_devices with arguments of its own.
NoArguments == [testbed |-> NotGiven, device |-> NotGiven, devices |-> NotGiven]

\* What a result callable does when called: it returns, raises an exception
\* that `except Exception` catches, or raises one it does not catch.
CallableOutcomes == {"returns", "Exception", "BaseException"}

\* Callables that return, as the runs of the other specifications have them.
ReturningCallables == [passing |-> "returns", failing |-> "returns"]

\* str(e) of the exception a callable raised.
RaisedBy(callable) == "raised by " \o callable

NoFuture == [state |-> "idle", output |-> <<>>, handled |-> FALSE]

\* generate_job_report has not been called.
NoReport == [generated |-> FALSE, results |-> <<>>, command_executions |-> <<>>,
             status |-> "", parameters |-> [type |-> "dict", value |-> <<>>]]

IdleRun ==
    /\ futures = [n \in {} |-> NoFuture]
    /\ dispatch_results = EmptyMap
    /\ current_state = EmptyMap
    /\ expected_parameters = JsonDict(EmptyMap)
    /\ adapter_parameters = JsonDict(EmptyMap)
    /\ calls = <<>>
    /\ job_failed_calls = 0
    /\ exception = ""
    /\ report = NoReport
    /\ connected = EmptyMap
    /\ callables = ReturningCallables
    /\ arguments = NoArguments

\* ------------------------------------------- the collector on its own
InitCollector ==
    /\ results = <<>>
    /\ command_executions = <<>>
    /\ pc = "collector"
    /\ mode = "testing"
    /\ testbed = <<>>
    /\ devices = EmptyMap
    /\ parameters_file = FileMissing
    /\ write_fails = "ok"
    /\ execute_calls = EmptyMap
    /\ parse_calls = EmptyMap
    /\ IdleRun

AddResult ==
    /\ pc = "collector"
    /\ Len(results) < MaxResults
    /\ \E st \in ResultStatus :
          results' = add_result(results, st, PlainMessage("message"))
    /\ UNCHANGED <<command_executions, pc>>
    /\ UNCHANGED <<inputVars, dispatchVars, controllerVars>>

NextCollector == AddResult

SpecCollector == InitCollector /\ [][NextCollector]_vars

\* ------------------------------------------------------------ a whole run
\* The subtree gather_current_state builds for a device with this parsed data.
DeviceTree(data) ==
    IF HasInterfaces(data) THEN device_ospf_data(data["interfaces"]) ELSE EmptyMap

\* Baselines a learning run has written.
BaselineTrees ==
    {("R1" :> DeviceTree(DataOneNeighbor("192.0.2.2"))),
     ("R1" :> DeviceTree(DataOneNeighbor("192.0.2.2")))
        @@ ("R2" :> DeviceTree(DataTwoNeighbors)),
     ("R1" :> EmptyMap)}

FileOptions ==
    {FileMissing, FileMalformed, FileUnreadable, FileWith(JsonDict(EmptyMap)),
     FileWith(JsonList), FileWith(JsonNull)}
    \cup {FileWith(JsonDict(t)) : t \in BaselineTrees}

\* How writing the parameters file goes: it succeeds, open() raises, or
\* json.dump / f.write raises after open() truncated the file.
WriteOutcomes == {"ok", "open raises", "write raises"}

TestbedNames == {testbed[i] : i \in 1..Len(testbed)}

Init ==
    /\ results = <<>>
    /\ command_executions = <<>>
    /\ pc = "start"
    /\ mode \in RunningMode
    /\ \E n \in 0..NumDevices : testbed = SubSeq(DeviceNames, 1, n)
    /\ devices \in [TestbedNames -> DeviceBehaviours]
    /\ IF mode = "learning"
       THEN parameters_file = FileMissing /\ write_fails \in WriteOutcomes
       ELSE parameters_file \in FileOptions /\ write_fails = "ok"
    /\ execute_calls = [n \in TestbedNames |-> 0]
    /\ parse_calls = [n \in TestbedNames |-> 0]
    /\ IdleRun

\* str(e) of the ValueError of ThreadPoolExecutor(max_workers=0).
NoWorkersError == "max_workers must be greater than 0"

\* handle_test_execution_mode calls current_state_callable, which calls
\* run_command_on_devices(testbed=...): one task per device is submitted.
CallCurrentState ==
    /\ pc = "start"
    /\ calls' = Append(calls, "current_state_callable")
    /\ IF Len(testbed) = 0
       THEN /\ pc' = "raised"
            /\ exception' = NoWorkersError
            /\ UNCHANGED futures
       ELSE /\ pc' = "dispatch"
            /\ futures' = [n \in TestbedNames |->
                               [state |-> "submitted", output |-> <<>>, handled |-> FALSE]]
            /\ UNCHANGED exception
    /\ UNCHANGED <<collectorVars, inputVars, dispatch_results, execute_calls,
                   parse_calls, current_state, parameters_file,
                   expected_parameters, adapter_parameters, job_failed_calls>>
    /\ UNCHANGED report

\* run_command_on_device calling execute again after it raised (not the code).
TaskExecuteRetrying(name) ==
    /\ name \in DOMAIN futures
    /\ futures[name].state = "submitted"
    /\ execute_calls' = [execute_calls EXCEPT ![name] = @ + 1]
    /\ futures' = [futures EXCEPT ![name] =
                      IF devices[name].execute_raises
                      THEN [@ EXCEPT !.state = IF execute_calls[name] = 0
                                               THEN "submitted" ELSE "raised"]
                      ELSE [@ EXCEPT !.state = "executed", !.output = RawOutput(name)]]
    /\ UNCHANGED <<collectorVars, pc, inputVars, dispatch_results, parse_calls,
                   controllerVars>>

\* run_command_on_device, first half: output = device.execute(command)
TaskExecute(name) ==
    /\ name \in DOMAIN futures
    /\ futures[name].state = "submitted"
    /\ execute_calls' = [execute_calls EXCEPT ![name] = @ + 1]
    /\ futures' = [futures EXCEPT ![name] =
                      IF devices[name].execute_raises
                      THEN [@ EXCEPT !.state = "raised"]
                      ELSE [@ EXCEPT !.state = "executed", !.output = RawOutput(name)]]
    /\ UNCHANGED <<collectorVars, pc, inputVars, dispatch_results, parse_calls,
                   controllerVars>>

\* run_command_on_device returning its result without recording the command
\* execution (not the code).
TaskParseWithoutRecord(name) ==
    /\ name \in DOMAIN futures
    /\ futures[name].state = "executed"
    /\ parse_calls' = [parse_calls EXCEPT ![name] = @ + 1]
    /\ futures' = [futures EXCEPT ![name].state =
                      IF devices[name].parse_raises THEN "raised" ELSE "done"]
    /\ UNCHANGED <<collectorVars, pc, inputVars, dispatch_results, execute_calls,
                   controllerVars>>

\* run_command_on_device recording the command execution before it parses
\* the output, so also when parse raises (not the code).
TaskParseRecordingFirst(name) ==
    /\ name \in DOMAIN futures
    /\ futures[name].state = "executed"
    /\ parse_calls' = [parse_calls EXCEPT ![name] = @ + 1]
    /\ futures' = [futures EXCEPT ![name].state =
                      IF devices[name].parse_raises THEN "raised" ELSE "done"]
    /\ command_executions' =
           add_command_execution(command_executions, name, Command,
                                 futures[name].output, devices[name].data)
    /\ UNCHANGED <<results, pc, inputVars, dispatch_results, execute_calls,
                   controllerVars>>

\* run_command_on_device, second half: data = device.parse(command, output),
\* add_command_execution, return CommandExecutionResult.
TaskParse(name) ==
    /\ name \in DOMAIN futures
    /\ futures[name].state = "executed"
    /\ parse_calls' = [parse_calls EXCEPT ![name] = @ + 1]
    /\ IF devices[name].parse_raises
       THEN /\ futures' = [futures EXCEPT ![name].state = "raised"]
            /\ UNCHANGED command_executions
       ELSE /\ futures' = [futures EXCEPT ![name].state = "done"]
            /\ command_executions' =
                   add_command_execution(command_executions, name, Command,
                                         futures[name].output, devices[name].data)
    /\ UNCHANGED <<results, pc, inputVars, dispatch_results, execute_calls,
                   controllerVars>>

Finished(name) == futures[name].state \in {"done", "raised"}

\* The entry the as_completed loop stores for a future that raised, dropping
\* the key instead (not the code, which stores None).
collected_entry_dropping_failures(name) ==
    IF futures[name].state = "done"
    THEN (name :> CommandExecutionResult(name, Command, futures[name].output,
                                         devices[name].data))
    ELSE EmptyMap

\* The entry the as_completed loop stores under another device's name
\* (not the code: a sibling's entry would be replaced).
collected_entry_misfiled(name) ==
    LET other == CHOOSE o \in TestbedNames : o # name \/ Len(testbed) = 1 IN
    IF futures[name].state = "done"
    THEN (other :> CommandExecutionResult(name, Command, futures[name].output,
                                          devices[name].data))
    ELSE (name :> None)

\* results[device.name] = result, or None when future.result() raised.
collected_entry(name) ==
    IF futures[name].state = "done"
    THEN (name :> CommandExecutionResult(name, Command, futures[name].output,
                                         devices[name].data))
    ELSE (name :> None)

\* One turn of "for future in concurrent.futures.as_completed(...)".
Collect(name) ==
    /\ pc = "dispatch"
    /\ name \in DOMAIN futures
    /\ Finished(name)
    /\ ~futures[name].handled
    /\ futures' = [futures EXCEPT ![name].handled = TRUE]
    /\ dispatch_results' = collected_entry(name) @@ dispatch_results
    /\ UNCHANGED <<collectorVars, pc, inputVars, execute_calls, parse_calls,
                   controllerVars>>

\* as_completed ending as soon as one future has been handled (not the code).
some_future_collected == \E n \in DOMAIN futures : futures[n].handled

\* as_completed is exhausted: every submitted future has been handled.
all_futures_collected == \A n \in DOMAIN futures : futures[n].handled

\* The with block ends and run_command_on_devices returns results.
DispatchReturn ==
    /\ pc = "dispatch"
    /\ all_futures_collected
    /\ pc' = "gather"
    /\ UNCHANGED <<collectorVars, inputVars, dispatchVars, controllerVars>>

\* gather_current_state after the dispatch: the device loop, return.
\* The devices in the order in which their tasks completed: those that
\* answered in the order of their command executions, then the others.
CompletionOrder ==
    [i \in 1..Len(command_executions) |-> command_executions[i].device_name]
    \o SelectSeq(testbed, LAMBDA n : futures[n].state # "done")

\* gather_current_state walking the devices in completion order (not the code).
GatherDevicesInCompletionOrder ==
    /\ pc = "gather"
    /\ LET done == GatherLoop(GatherState(EmptyMap, <<>>, 0), CompletionOrder,
                              dispatch_results, 1) IN
       /\ results' = results \o done.results
       /\ job_failed_calls' = job_failed_calls + done.failed
       /\ current_state' = done.tree
    /\ pc' = "branch"
    /\ UNCHANGED <<command_executions, inputVars, dispatchVars, parameters_file,
                   expected_parameters, adapter_parameters, calls, exception>>
    /\ UNCHANGED report

GatherDevices ==
    /\ pc = "gather"
    /\ LET done == GatherLoop(GatherState(EmptyMap, <<>>, 0), testbed,
                              dispatch_results, 1) IN
       /\ results' = results \o done.results
       /\ job_failed_calls' = job_failed_calls + done.failed
       /\ current_state' = done.tree
    /\ pc' = "branch"
    /\ UNCHANGED <<command_executions, inputVars, dispatchVars, parameters_file,
                   expected_parameters, adapter_parameters, calls, exception>>
    /\ UNCHANGED report

\* save_parameters_to_file: True, or the exception it re-raises.
save_parameters_to_file(outcome) ==
    IF outcome = "ok" THEN [value |-> TRUE, raised |-> ""]
    ELSE [value |-> FALSE, raised |-> "OSError"]

\* save_parameters_to_file reporting success without the data reaching the
\* file (not the code: the file stays as it was).
file_after_save_not_written(file, data, outcome) ==
    IF outcome = "write raises" THEN FileMalformed ELSE file

\* The parameters file after save_parameters_to_file(data, ...).
file_after_save(file, data, outcome) ==
    IF outcome = "ok" THEN FileWith(JsonDict(data))
    ELSE IF outcome = "open raises" THEN file
    ELSE FileMalformed

\* The learning branch refusing to persist a tree gathered with failures:
\* it leaves the file alone and appends the FAILED verdict (not the code).
LearningBranchRefusingPartial ==
    /\ pc = "branch"
    /\ mode = "learning"
    /\ IF job_failed_calls > 0
       THEN /\ calls' = Append(calls, "failing_callable")
            /\ results' = add_result(results, FAILED,
                   PlainMessage("Failed to save parameters to file"))
            /\ pc' = "returned"
            /\ UNCHANGED <<parameters_file, exception>>
       ELSE LET saved == save_parameters_to_file(write_fails) IN
            /\ parameters_file' =
                   file_after_save(parameters_file, current_state, write_fails)
            /\ IF saved.raised # ""
               THEN /\ calls' = Append(calls, "save_parameters_to_file")
                    /\ exception' = saved.raised
                    /\ pc' = "raised"
                    /\ UNCHANGED results
               ELSE /\ calls' = calls \o <<"save_parameters_to_file", "passing_callable">>
                    /\ results' = add_result(results, PASSED,
                           PlainMessage("Successfully learned parameters and saved to file"))
                    /\ pc' = "returned"
                    /\ UNCHANGED exception
    /\ UNCHANGED <<command_executions, inputVars, dispatchVars, current_state,
                   expected_parameters, adapter_parameters, job_failed_calls>>
    /\ UNCHANGED report

\* handle_test_execution_mode, mode == "learning".
LearningBranch ==
    /\ pc = "branch"
    /\ mode = "learning"
    /\ LET saved == save_parameters_to_file(write_fails) IN
       /\ parameters_file' = file_after_save(parameters_file, current_state, write_fails)
       /\ IF saved.raised # ""
          THEN /\ calls' = Append(calls, "save_parameters_to_file")
               /\ exception' = saved.raised
               /\ pc' = "raised"
               /\ UNCHANGED results
          ELSE IF saved.value
          THEN /\ calls' = calls \o <<"save_parameters_to_file", "passing_callable">>
               /\ IF callables.passing = "returns"
                  THEN /\ results' = add_result(results, PASSED,
                              PlainMessage("Successfully learned parameters and saved to file"))
                       /\ pc' = "returned"
                       /\ UNCHANGED exception
                  ELSE /\ exception' = RaisedBy("passing_callable")
                       /\ pc' = "raised"
                       /\ UNCHANGED results
          ELSE /\ calls' = calls \o <<"save_parameters_to_file", "failing_callable">>
               /\ IF callables.failing = "returns"
                  THEN /\ results' = add_result(results, FAILED,
                              PlainMessage("Failed to save parameters to file"))
                       /\ pc' = "returned"
                       /\ UNCHANGED exception
                  ELSE /\ exception' = RaisedBy("failing_callable")
                       /\ pc' = "raised"
                       /\ UNCHANGED results
    /\ UNCHANGED <<command_executions, inputVars, dispatchVars, current_state,
                   expected_parameters, adapter_parameters, job_failed_calls>>
    /\ UNCHANGED report

NoExpectedParameters ==
    PlainMessage("No expected parameters found. Run in learning mode first.")

\* The testing branch treating an empty baseline as a retry condition: it
\* goes back to gathering instead of returning (not the code).
TestingLoadRetrying ==
    /\ pc = "branch"
    /\ mode = "testing"
    /\ LET loaded == load_parameters_from_file(parameters_file) IN
       IF loaded.raised # ""
       THEN /\ calls' = Append(calls, "load_parameters_from_file")
            /\ exception' = loaded.raised
            /\ pc' = "raised"
            /\ UNCHANGED <<results, expected_parameters, adapter_parameters>>
       ELSE /\ expected_parameters' = loaded.value
            /\ adapter_parameters' = loaded.value
            /\ UNCHANGED exception
            /\ IF ~Truthy(loaded.value)
               THEN /\ calls' = calls \o <<"load_parameters_from_file", "failing_callable">>
                    /\ results' = add_result(results, FAILED, NoExpectedParameters)
                    /\ pc' = "start"
               ELSE /\ calls' = Append(calls, "load_parameters_from_file")
                    /\ pc' = "compare"
                    /\ UNCHANGED results
    /\ UNCHANGED <<command_executions, inputVars, dispatchVars, current_state,
                   parameters_file, job_failed_calls>>
    /\ UNCHANGED report

\* The testing branch without the empty-baseline guard (not the code).
TestingLoadUnguarded ==
    /\ pc = "branch"
    /\ mode = "testing"
    /\ LET loaded == load_parameters_from_file(parameters_file) IN
       IF loaded.raised # ""
       THEN /\ exception' = loaded.raised
            /\ pc' = "raised"
            /\ UNCHANGED <<expected_parameters, adapter_parameters>>
       ELSE /\ expected_parameters' = loaded.value
            /\ adapter_parameters' = loaded.value
            /\ pc' = "compare"
            /\ UNCHANGED exception
    /\ calls' = Append(calls, "load_parameters_from_file")
    /\ UNCHANGED <<collectorVars, inputVars, dispatchVars, current_state,
                   parameters_file, job_failed_calls>>
    /\ UNCHANGED report

\* handle_test_execution_mode, testing mode: load, store on the adapter, guard.
\* The testing branch storing the baseline on the adapter only after the
\* empty-baseline guard let it through (not the code).
TestingLoadStoringAfterGuard ==
    /\ pc = "branch"
    /\ mode = "testing"
    /\ LET loaded == load_parameters_from_file(parameters_file) IN
       /\ expected_parameters' = loaded.value
       /\ UNCHANGED exception
       /\ IF ~Truthy(loaded.value)
          THEN /\ calls' = calls \o <<"load_parameters_from_file", "failing_callable">>
               /\ results' = add_result(results, FAILED, NoExpectedParameters)
               /\ pc' = "returned"
               /\ UNCHANGED adapter_parameters
          ELSE /\ calls' = Append(calls, "load_parameters_from_file")
               /\ adapter_parameters' = loaded.value
               /\ pc' = "compare"
               /\ UNCHANGED results
    /\ UNCHANGED <<command_executions, inputVars, dispatchVars, current_state,
                   parameters_file, job_failed_calls>>
    /\ UNCHANGED report

TestingLoad ==
    /\ pc = "branch"
    /\ mode = "testing"
    /\ LET loaded == load_parameters_from_file(parameters_file) IN
       IF loaded.raised # ""
       THEN /\ calls' = Append(calls, "load_parameters_from_file")
            /\ exception' = loaded.raised
            /\ pc' = "raised"
            /\ UNCHANGED <<results, expected_parameters, adapter_parameters>>
       ELSE /\ expected_parameters' = loaded.value
            /\ adapter_parameters' = loaded.value
            /\ IF ~Truthy(loaded.value)
               THEN /\ calls' = calls \o <<"load_parameters_from_file", "failing_callable">>
                    /\ IF callables.failing = "returns"
                       THEN /\ results' = add_result(results, FAILED, NoExpectedParameters)
                            /\ pc' = "returned"
                            /\ UNCHANGED exception
                       ELSE /\ exception' = RaisedBy("failing_callable")
                            /\ pc' = "raised"
                            /\ UNCHANGED results
               ELSE /\ calls' = Append(calls, "load_parameters_from_file")
                    /\ pc' = "compare"
                    /\ UNCHANGED <<results, exception>>
    /\ UNCHANGED <<command_executions, inputVars, dispatchVars, current_state,
                   parameters_file, job_failed_calls>>
    /\ UNCHANGED report

Validated ==
    PlainMessage("The current state of the device has been successfully validated against the expected parameters.")

\* The comparison called outside any try block: what it raises leaves
\* handle_test_execution_mode (not the code).
TestingCompareWithoutTry ==
    /\ pc = "compare"
    /\ LET compared == compare_expected_parameters_to_current_state(
                           current_state, expected_parameters) IN
       /\ job_failed_calls' = job_failed_calls + compared.failed
       /\ IF compared.raised = ""
          THEN /\ calls' = calls \o <<"comparison_callable", "passing_callable">>
               /\ results' = add_result(results \o compared.results, PASSED, Validated)
               /\ pc' = "returned"
               /\ UNCHANGED exception
          ELSE /\ calls' = Append(calls, "comparison_callable")
               /\ results' = results \o compared.results
               /\ pc' = "raised"
               /\ exception' = compared.raised
    /\ UNCHANGED <<command_executions, inputVars, dispatchVars, current_state,
                   parameters_file, expected_parameters, adapter_parameters>>
    /\ UNCHANGED report

\* handle_test_execution_mode, testing mode: the try block and its handler.
TestingCompare ==
    /\ pc = "compare"
    /\ LET compared == compare_expected_parameters_to_current_state(
                           current_state, expected_parameters)
           \* what the try block raised into `except Exception`, "" if nothing
           caught == IF compared.raised # "" THEN compared.raised
                     ELSE IF callables.passing = "Exception"
                     THEN RaisedBy("passing_callable")
                     ELSE ""
       IN
       /\ job_failed_calls' = job_failed_calls + compared.failed
       /\ IF compared.raised = "" /\ callables.passing = "returns"
          THEN /\ calls' = calls \o <<"comparison_callable", "passing_callable">>
               /\ results' = add_result(results \o compared.results, PASSED, Validated)
               /\ pc' = "returned"
               /\ UNCHANGED exception
          ELSE IF compared.raised = "" /\ callables.passing = "BaseException"
          THEN /\ calls' = calls \o <<"comparison_callable", "passing_callable">>
               /\ results' = results \o compared.results
               /\ exception' = RaisedBy("passing_callable")
               /\ pc' = "raised"
          ELSE /\ calls' = calls
                      \o (IF compared.raised = ""
                          THEN <<"comparison_callable", "passing_callable",
                                 "failing_callable">>
                          ELSE <<"comparison_callable", "failing_callable">>)
               /\ IF callables.failing = "returns"
                  THEN /\ results' = add_result(results \o compared.results, FAILED,
                                                PlainMessage(caught))
                       /\ pc' = "returned"
                       /\ UNCHANGED exception
                  ELSE /\ results' = results \o compared.results
                       /\ exception' = RaisedBy("failing_callable")
                       /\ pc' = "raised"
    /\ UNCHANGED <<command_executions, inputVars, dispatchVars, current_state,
                   parameters_file, expected_parameters, adapter_parameters>>
    /\ UNCHANGED report

\* CommonCleanup.add_results_to_report reading context.test_result_collector,
\* the collector main() creates for the Context and that neither the
\* controller nor the dispatcher writes to (not the code of this job).
AddResultsToReportFromContext ==
    /\ pc \in {"returned", "raised"}
    /\ mode = "testing"
    /\ ~report.generated
    /\ report' = [generated |-> TRUE, results |-> <<>>, command_executions |-> <<>>,
                  status |-> status(<<>>), parameters |-> adapter_parameters]
    /\ UNCHANGED <<collectorVars, pc, inputVars, dispatchVars, current_state,
                   parameters_file, expected_parameters, adapter_parameters, calls,
                   job_failed_calls, exception>>

\* CommonCleanup.add_results_to_report, which runs once the test case is
\* over: in testing mode it hands the collector's results, command
\* executions and status and the adapter's parameters to generate_job_report
\* (in learning mode it does nothing).
AddResultsToReport ==
    /\ pc \in {"returned", "raised"}
    /\ mode = "testing"
    /\ ~report.generated
    /\ report' = [generated |-> TRUE, results |-> results,
                  command_executions |-> command_executions,
                  status |-> status(results), parameters |-> adapter_parameters]
    /\ UNCHANGED <<collectorVars, pc, inputVars, dispatchVars, current_state,
                   parameters_file, expected_parameters, adapter_parameters, calls,
                   job_failed_calls, exception>>

Next ==
    \/ CallCurrentState
    \/ \E name \in TestbedNames : TaskExecute(name)
    \/ \E name \in TestbedNames : TaskParse(name)
    \/ \E name \in TestbedNames : Collect(name)
    \/ DispatchReturn
    \/ GatherDevices
    \/ LearningBranch
    \/ TestingLoad
    \/ TestingCompare
    \/ AddResultsToReport

Spec == Init /\ [][Next]_vars

\* One run on a testbed of one device with result callables of every kind.
InitCallables ==
    /\ results = <<>>
    /\ command_executions = <<>>
    /\ pc = "start"
    /\ mode \in RunningMode
    /\ testbed = <<"R1">>
    /\ devices \in [TestbedNames -> DeviceBehaviours]
    /\ IF mode = "learning"
       THEN parameters_file = FileMissing /\ write_fails \in WriteOutcomes
       ELSE parameters_file \in FileOptions /\ write_fails = "ok"
    /\ execute_calls = [n \in TestbedNames |-> 0]
    /\ parse_calls = [n \in TestbedNames |-> 0]
    /\ futures = [n \in {} |-> NoFuture]
    /\ dispatch_results = EmptyMap
    /\ current_state = EmptyMap
    /\ expected_parameters = JsonDict(EmptyMap)
    /\ adapter_parameters = JsonDict(EmptyMap)
    /\ calls = <<>>
    /\ job_failed_calls = 0
    /\ exception = ""
    /\ report = NoReport
    /\ connected = EmptyMap
    /\ callables \in [passing : CallableOutcomes, failing : CallableOutcomes]
    /\ arguments = NoArguments

SpecCallables == InitCallables /\ [][Next]_vars

\* A run in which every call returns or raises: the pool's threads run their
\* tasks, as_completed yields every finished future and the caller goes on,
\* so a step that is possible is eventually taken.
SpecLive == Spec /\ WF_vars(Next)

\* --------------------------------------------- learning, then testing
\* The job is run in learning mode on a network whose state the run observes.
InitRoundTrip == Init /\ mode = "learning"

\* main() is run again with --mode testing after the learning run returned:
\* a new TestbedAdapter with a fresh TestResultCollector, the same devices in
\* the same state, the parameters file as the learning run left it.
StartTestingRun ==
    /\ pc = "returned"
    /\ mode = "learning"
    /\ mode' = "testing"
    /\ pc' = "start"
    /\ results' = <<>>
    /\ command_executions' = <<>>
    /\ futures' = [n \in {} |-> NoFuture]
    /\ dispatch_results' = EmptyMap
    /\ current_state' = EmptyMap
    /\ expected_parameters' = JsonDict(EmptyMap)
    /\ adapter_parameters' = JsonDict(EmptyMap)
    /\ calls' = <<>>
    /\ job_failed_calls' = 0
    /\ exception' = ""
    /\ report' = NoReport
    /\ execute_calls' = [n \in TestbedNames |-> 0]
    /\ parse_calls' = [n \in TestbedNames |-> 0]
    /\ UNCHANGED <<testbed, devices, write_fails, parameters_file, connected,
                   callables, arguments>>

NextRoundTrip == Next \/ StartTestingRun

SpecRoundTrip == InitRoundTrip /\ [][NextRoundTrip]_vars

\* ------------------------------------------------- the comparator on its own
\* The subtree of a device in a ParameterTree: no interface, one neighbor,
\* the same neighbor at another address, two neighbors, two interfaces, and
\* a neighbor without the attribute under test.
DeviceTreeOptions ==
    {EmptyMap,
     ("Gi0/1" :> InterfaceData("10.0.0.2" :> NeighborData("192.0.2.2"))),
     ("Gi0/1" :> InterfaceData("10.0.0.2" :> NeighborData("192.0.2.9"))),
     ("Gi0/1" :> InterfaceData(("10.0.0.2" :> NeighborData("192.0.2.2"))
                               @@ ("10.0.0.3" :> NeighborData("192.0.2.3")))),
     ("Gi0/1" :> InterfaceData("10.0.0.2" :> NeighborData("192.0.2.2")))
        @@ ("Gi0/2" :> InterfaceData("10.0.0.3" :> NeighborData("192.0.2.3"))),
     ("Gi0/1" :> InterfaceData("10.0.0.2" :> EmptyMap))}

TreeDeviceNames == {DeviceNames[i] : i \in 1..NumDevices}

\* The ParameterTrees over at most NumDevices devices.
Trees == UNION {[D -> DeviceTreeOptions] : D \in SUBSET TreeDeviceNames}

\* The comparator is about to be called on an actual and an expected tree.
InitCompare ==
    /\ results = <<>>
    /\ command_executions = <<>>
    /\ pc = "comparator"
    /\ mode = "testing"
    /\ testbed = <<>>
    /\ devices = EmptyMap
    /\ parameters_file = FileMissing
    /\ write_fails = "ok"
    /\ execute_calls = EmptyMap
    /\ parse_calls = EmptyMap
    /\ futures = [n \in {} |-> NoFuture]
    /\ dispatch_results = EmptyMap
    /\ current_state \in Trees
    /\ expected_parameters \in {JsonDict(t) : t \in Trees}
    /\ adapter_parameters = expected_parameters
    /\ calls = <<>>
    /\ job_failed_calls = 0
    /\ exception = ""
    /\ report = NoReport
    /\ connected = EmptyMap
    /\ callables = ReturningCallables
    /\ arguments = NoArguments

\* compare_expected_parameters_to_current_state(current_state,
\* expected_parameters, context) called on its own.
ApplyComparison ==
    /\ pc = "comparator"
    /\ LET compared == compare_expected_parameters_to_current_state(
                           current_state, expected_parameters) IN
       /\ results' = results \o compared.results
       /\ job_failed_calls' = job_failed_calls + compared.failed
       /\ exception' = compared.raised
    /\ calls' = Append(calls, "comparison_callable")
    /\ pc' = "compared"
    /\ UNCHANGED <<command_executions, inputVars, dispatchVars, current_state,
                   parameters_file, expected_parameters, adapter_parameters>>
    /\ UNCHANGED report

NextCompare == ApplyComparison

SpecCompare == InitCompare /\ [][NextCompare]_vars

\* ------------------------------------------------------- the connect phase
\* What a device does when asked to connect: connect raises or returns, and
\* device.connected is true or false afterwards.
ConnectBehaviours ==
    [connect_raises : BOOLEAN, connects : BOOLEAN]

\* The message verify_testbed_device_connectivity hands to failed_callable.
FailedToConnect(name) == <<"failed_callable", "Failed to connect to device", name>>

\* The setup of a test script about to call connect_to_testbed_devices.
InitConnect ==
    /\ results = <<>>
    /\ command_executions = <<>>
    /\ pc = "connect"
    /\ mode = "testing"
    /\ \E n \in 0..NumDevices : testbed = SubSeq(DeviceNames, 1, n)
    /\ devices \in [TestbedNames -> ConnectBehaviours]
    /\ parameters_file = FileMissing
    /\ write_fails = "ok"
    /\ execute_calls = EmptyMap
    /\ parse_calls = EmptyMap
    /\ futures = [n \in {} |-> NoFuture]
    /\ dispatch_results = EmptyMap
    /\ current_state = EmptyMap
    /\ expected_parameters = JsonDict(EmptyMap)
    /\ adapter_parameters = JsonDict(EmptyMap)
    /\ calls = <<>>
    /\ job_failed_calls = 0
    /\ exception = ""
    /\ report = NoReport
    /\ connected = [n \in TestbedNames |-> FALSE]
    /\ callables = ReturningCallables
    /\ arguments = NoArguments

\* connect_to_testbed_devices: the pool is created with one worker per
\* device (none raises ValueError) and connect_to_device is submitted for
\* every device.
ConnectSubmit ==
    /\ pc = "connect"
    /\ IF Len(testbed) = 0
       THEN /\ pc' = "raised"
            /\ exception' = NoWorkersError
            /\ UNCHANGED futures
       ELSE /\ pc' = "wait"
            /\ futures' = [n \in TestbedNames |->
                               [state |-> "submitted", output |-> <<>>, handled |-> FALSE]]
            /\ UNCHANGED exception
    /\ UNCHANGED <<collectorVars, inputVars, dispatch_results, execute_calls,
                   parse_calls, current_state, parameters_file,
                   expected_parameters, adapter_parameters, calls,
                   job_failed_calls, report>>

\* connect_to_device in its worker thread: device.connect(log_stdout=False);
\* an exception stays in the future.
ConnectTask(name) ==
    /\ name \in DOMAIN futures
    /\ futures[name].state = "submitted"
    /\ futures' = [futures EXCEPT ![name].state =
                      IF devices[name].connect_raises THEN "raised" ELSE "done"]
    /\ connected' = [connected EXCEPT ![name] = devices[name].connects]
    /\ UNCHANGED <<collectorVars, pc, mode, testbed, devices, write_fails,
                   callables, arguments, dispatch_results, execute_calls,
                   parse_calls, controllerVars>>

\* concurrent.futures.wait returning at the first finished future
\* (return_when=FIRST_COMPLETED, not the code).
ConnectReturnAtFirstCompleted ==
    /\ pc = "wait"
    /\ \E name \in DOMAIN futures : Finished(name)
    /\ pc' = "verify"
    /\ UNCHANGED <<collectorVars, inputVars, dispatchVars, controllerVars>>

\* concurrent.futures.wait(futures) and the end of the with block: every
\* future is finished; no result() is read, so nothing is raised.
ConnectReturn ==
    /\ pc = "wait"
    /\ \A name \in DOMAIN futures : Finished(name)
    /\ pc' = "verify"
    /\ UNCHANGED <<collectorVars, inputVars, dispatchVars, controllerVars>>

\* The failed_callable calls of verify_testbed_device_connectivity from
\* testbed device i on.
RECURSIVE VerifyLoop(_, _)
VerifyLoop(names, i) ==
    IF i > Len(names) THEN <<>>
    ELSE (IF ~connected[names[i]] THEN <<FailedToConnect(names[i])>> ELSE <<>>)
         \o VerifyLoop(names, i + 1)

\* verify_testbed_device_connectivity(testbed, failed_callable)
VerifyConnectivity ==
    /\ pc = "verify"
    /\ calls' = calls \o VerifyLoop(testbed, 1)
    /\ job_failed_calls' = job_failed_calls + Len(VerifyLoop(testbed, 1))
    /\ pc' = "verified"
    /\ UNCHANGED <<collectorVars, inputVars, dispatchVars, current_state,
                   parameters_file, expected_parameters, adapter_parameters,
                   exception, report>>

NextConnect ==
    \/ ConnectSubmit
    \/ \E name \in TestbedNames : ConnectTask(name)
    \/ ConnectReturn
    \/ VerifyConnectivity

SpecConnect == InitConnect /\ [][NextConnect]_vars

\* ------------------------------------- the comparator on one neighbor's value
\* The values of the attribute under test: strings, a number and its string
\* form, the same number as int, float and boolean, another number, null.
AttributeValues ==
    {"192.0.2.2", "192.0.2.9", "1", "#1", "#1.0", "#true", "#2", PyNone}

\* A neighbor's attribute map: the attribute is missing or holds a value.
AttributeMaps == {EmptyMap} \cup {(Attribute :> v) : v \in AttributeValues}

\* The tree with one device, one interface and one neighbor.
NeighborTree(attributes) ==
    ("R1" :> ("Gi0/1" :> InterfaceData("10.0.0.2" :> attributes)))

InitNeighbor ==
    /\ results = <<>>
    /\ command_executions = <<>>
    /\ pc = "comparator"
    /\ mode = "testing"
    /\ testbed = <<>>
    /\ devices = EmptyMap
    /\ parameters_file = FileMissing
    /\ write_fails = "ok"
    /\ execute_calls = EmptyMap
    /\ parse_calls = EmptyMap
    /\ futures = [n \in {} |-> NoFuture]
    /\ dispatch_results = EmptyMap
    /\ current_state \in {NeighborTree(m) : m \in AttributeMaps}
    /\ expected_parameters \in {JsonDict(NeighborTree(m)) : m \in AttributeMaps}
    /\ adapter_parameters = expected_parameters
    /\ calls = <<>>
    /\ job_failed_calls = 0
    /\ exception = ""
    /\ report = NoReport
    /\ connected = EmptyMap
    /\ callables = ReturningCallables
    /\ arguments = NoArguments

SpecNeighbor == InitNeighbor /\ [][NextCompare]_vars

\* ------------------------------------------------ gather_current_state alone
\* Parsed data carrying the parser's full payload for a neighbor, next to an
\* interface that lists no neighbor.
DataRawPayload ==
    ParsedData(("Gi0/1" :> InterfaceData("10.0.0.2" :>
                    (NeighborData("192.0.2.2") @@ ("priority" :> "1")
                                               @@ ("state" :> "FULL/DR"))))
               @@ ("Gi0/2" :> InterfaceData(EmptyMap)))

\* The payload without the attribute under test, next to an interface
\* without a "neighbors" key.
DataRawPayloadWithoutAttribute ==
    ParsedData(("Gi0/1" :> EmptyMap)
               @@ ("Gi0/2" :> InterfaceData("10.0.0.3" :>
                    (("priority" :> "1") @@ ("state" :> "FULL/BDR")))))

\* Interfaces, none of which lists a neighbor.
DataInterfacesWithoutNeighbors ==
    ParsedData(("Gi0/1" :> InterfaceData(EmptyMap)) @@ ("Gi0/2" :> EmptyMap))

GatherOptions ==
    ParsedOptions
    \cup {DataRawPayload, DataRawPayloadWithoutAttribute, DataInterfacesWithoutNeighbors}

\* gather_current_state about to walk the devices of a testbed, given the
\* map a dispatch returned.
InitGather ==
    /\ results = <<>>
    /\ command_executions = <<>>
    /\ pc = "gatherer"
    /\ mode = "learning"
    /\ \E n \in 0..NumDevices : testbed = SubSeq(DeviceNames, 1, n)
    /\ devices = EmptyMap
    /\ parameters_file = FileMissing
    /\ write_fails = "ok"
    /\ execute_calls = EmptyMap
    /\ parse_calls = EmptyMap
    /\ futures = [n \in {} |-> NoFuture]
    /\ dispatch_results \in
           [TestbedNames ->
               {None} \cup {CommandExecutionResult("", Command, <<>>, d) :
                               d \in GatherOptions}]
    /\ current_state = EmptyMap
    /\ expected_parameters = JsonDict(EmptyMap)
    /\ adapter_parameters = JsonDict(EmptyMap)
    /\ calls = <<>>
    /\ job_failed_calls = 0
    /\ exception = ""
    /\ report = NoReport
    /\ connected = EmptyMap
    /\ callables = ReturningCallables
    /\ arguments = NoArguments

\* The device loop of gather_current_state over the dispatch map.
ApplyGather ==
    /\ pc = "gatherer"
    /\ LET done == GatherLoop(GatherState(EmptyMap, <<>>, 0), testbed,
                              dispatch_results, 1) IN
       /\ results' = results \o done.results
       /\ job_failed_calls' = job_failed_calls + done.failed
       /\ current_state' = done.tree
    /\ calls' = Append(calls, "current_state_callable")
    /\ pc' = "gathered"
    /\ UNCHANGED <<command_executions, inputVars, dispatchVars, parameters_file,
                   expected_parameters, adapter_parameters, exception>>
    /\ UNCHANGED report

NextGather == ApplyGather

SpecGather == InitGather /\ [][NextGather]_vars

\* ==================================================================== claims
\* The positions of the records whose status is neither PASSED nor INFO.
NonPassing(rs) == {i \in 1..Len(rs) : rs[i].status \notin {PASSED, INFO}}

FirstOf(S) == CHOOSE i \in S : \A j \in S : i <= j

HasFailed(rs) == \E i \in 1..Len(rs) : rs[i].status = FAILED

\* C1: after any sequence of add_result calls, status is PASSED if and only
\* if no appended record has a status outside {PASSED, INFO}; an empty
\* collector and a collector of INFO records alone report PASSED.
C1_StatusPassedIffNoNonPassing ==
    (status(results) = PASSED) <=> (NonPassing(results) = {})

\* C1 witness: a collector holding INFO records alone, reporting PASSED.
C1_Witness ==
    /\ pc = "collector"
    /\ Len(results) >= 2
    /\ \A i \in 1..Len(results) : results[i].status = INFO
    /\ status(results) = PASSED

\* C2 as stated: once a FAILED record is in the collector, status is FAILED
\* whatever was appended before it.
C2_FailedAnywhereForcesFailed ==
    HasFailed(results) => status(results) = FAILED

\* C2 amended: once a FAILED record is in the collector, status is never
\* PASSED, and it is FAILED whenever every record appended before the first
\* FAILED record is PASSED or INFO.
C2_FailedForcesNonPassed ==
    HasFailed(results) =>
        LET f == FirstOf({i \in 1..Len(results) : results[i].status = FAILED}) IN
        /\ status(results) # PASSED
        /\ (\A j \in 1..(f - 1) : results[j].status \in {PASSED, INFO})
               => status(results) = FAILED

\* C2 witness: a FAILED record after passing records and before a SKIPPED one.
C2_Witness ==
    /\ pc = "collector"
    /\ Len(results) >= 3
    /\ results[1].status = PASSED
    /\ results[2].status = FAILED
    /\ results[3].status = SKIPPED
    /\ status(results) = FAILED

\* C3: when some record is neither PASSED nor INFO, status is the status of
\* the earliest such record; later non-passing records do not change it.
C3_StatusIsFirstNonPassing ==
    NonPassing(results) # {} =>
        status(results) = results[FirstOf(NonPassing(results))].status

\* C3 witness: two non-passing records of different statuses, the first wins.
C3_Witness ==
    /\ pc = "collector"
    /\ Len(results) >= 3
    /\ results[1].status = INFO
    /\ results[2].status = ERRORED
    /\ results[3].status = FAILED
    /\ status(results) = ERRORED

\* ------------------------------------------------- claims about a whole run
\* run_command_on_devices has returned its map to gather_current_state.
DispatchReturned == pc \in {"gather", "branch", "compare", "returned"}
                    \/ (pc = "raised" /\ exception = "OSError")

\* Both execute and parse succeed on the device.
Succeeds(name) == ~devices[name].execute_raises /\ ~devices[name].parse_raises

\* How often call c appears in the controller's calls.
CallCount(c) == Cardinality({i \in 1..Len(calls) : calls[i] = c})

\* The records gather_current_state appended in this run.
GatheredResults ==
    GatherLoop(GatherState(EmptyMap, <<>>, 0), testbed, dispatch_results, 1).results

\* Every device that succeeded has its own entry in the returned map.
OwnEntries ==
    \A name \in TestbedNames :
        Succeeds(name) =>
            /\ name \in DOMAIN dispatch_results
            /\ dispatch_results[name] =
                   CommandExecutionResult(name, Command, RawOutput(name),
                                          devices[name].data)

\* C4 as stated: for any set of devices, whatever subset raises in execute
\* or parse, run_command_on_devices does not raise, and every device that
\* succeeded has its own command, output and data in the returned map.
C4_DispatchNeverRaisesAnySet ==
    /\ ~(pc = "raised" /\ exception = NoWorkersError)
    /\ DispatchReturned => OwnEntries

\* C4 amended: the same for any non-empty set of devices (with no device at
\* all the thread pool cannot be created and the call raises ValueError).
C4_DispatchIsolatesFailures ==
    /\ Len(testbed) > 0 => ~(pc = "raised" /\ exception = NoWorkersError)
    /\ DispatchReturned => OwnEntries

\* C4 witness: the dispatch returned with a failed device and a successful
\* sibling whose entry is its own.
C4_Witness ==
    /\ pc = "gather"
    /\ Len(testbed) >= 2
    /\ devices["R1"].execute_raises
    /\ Succeeds("R2")
    /\ dispatch_results["R2"].output = RawOutput("R2")

C6_ReturnsAfterAllTasksFinished ==
    pc \notin {"collector", "start", "dispatch"} =>
        \A name \in TestbedNames :
            /\ name \in DOMAIN futures
            /\ Finished(name)

\* C6 witness: the caller is past the dispatch of two devices, one task
\* having returned and one having raised.
C6_Witness ==
    /\ pc = "gather"
    /\ Len(testbed) >= 2
    /\ futures["R1"].state = "done"
    /\ futures["R2"].state = "raised"

\* The FAILED records of rs that name the device.
FailedNaming(rs, name) ==
    {i \in 1..Len(rs) : rs[i].status = FAILED /\ rs[i].message.device = name}

EmptyBaselineLoaded ==
    /\ mode = "testing"
    /\ CallCount("load_parameters_from_file") > 0
    /\ ~Truthy(expected_parameters)

\* C8 as stated: in testing mode with an empty or missing baseline the
\* current-state callable is never invoked and no device is asked to
\* execute or parse.
C8_NoDispatchOnEmptyBaseline ==
    EmptyBaselineLoaded =>
        /\ CallCount("current_state_callable") = 0
        /\ \A name \in TestbedNames :
               execute_calls[name] = 0 /\ parse_calls[name] = 0

\* C8 amended: in testing mode with an empty or missing baseline the
\* current-state callable is invoked exactly once, before the baseline is
\* loaded, and never after it.
C8_NoDispatchAfterEmptyBaseline ==
    EmptyBaselineLoaded =>
        /\ CallCount("current_state_callable") = 1
        /\ calls[1] = "current_state_callable"
        /\ calls[2] = "load_parameters_from_file"

\* C8 witness: an empty baseline was loaded after a dispatch that executed
\* on a device.
C8_Witness ==
    /\ pc = "returned"
    /\ EmptyBaselineLoaded
    /\ parameters_file = FileMissing
    /\ Len(testbed) >= 1
    /\ execute_calls["R1"] = 1

Compared ==
    compare_expected_parameters_to_current_state(current_state, expected_parameters)

Itemized ==
    GatheredResults
    \o (IF CallCount("comparison_callable") > 0 THEN Compared.results ELSE <<>>)

\* handle_test_execution_mode was entered, its current-state callable
\* returned, and the invocation is over (it returned or an exception left it).
InvocationOver ==
    /\ pc \in {"returned", "raised"}
    /\ exception # NoWorkersError

\* C11 as stated: every invocation of handle_test_execution_mode whose gather
\* step returned, in either mode and on every path, has appended exactly one
\* terminal record, PASSED or FAILED, after the itemized records.
C11_ExactlyOneTerminalVerdict ==
    InvocationOver =>
        /\ Len(results) = Len(Itemized) + 1
        /\ SubSeq(results, 1, Len(Itemized)) = Itemized
        /\ results[Len(results)].status \in {PASSED, FAILED}

\* C12 as stated: in learning mode, once persisting was attempted, the run
\* returned without an exception and its last record is PASSED when the write
\* succeeded and FAILED ("failed to save parameters") when it failed.
C12_LearningVerdictFollowsPersistence ==
    (mode = "learning" /\ CallCount("save_parameters_to_file") > 0) =>
        /\ pc = "returned"
        /\ exception = ""
        /\ results # <<>>
        /\ results[Len(results)] =
               IF write_fails = "ok"
               THEN Result(PASSED,
                        PlainMessage("Successfully learned parameters and saved to file"))
               ELSE Result(FAILED, PlainMessage("Failed to save parameters to file"))

\* C13 as stated: save_parameters_to_file returns true when the write
\* succeeds and returns false, raising nothing, when it fails.
C13_SaveReturnsFalseOnFailure ==
    CallCount("save_parameters_to_file") > 0 =>
        /\ save_parameters_to_file(write_fails).raised = ""
        /\ save_parameters_to_file(write_fails).value = (write_fails = "ok")
        /\ exception = ""

\* ------------------------------------------------ claims about the baseline
\* The documents a parameters file of the run can hold.
StoredDocuments ==
    {JsonDict(EmptyMap), JsonList, JsonNull} \cup {JsonDict(t) : t \in BaselineTrees}

CountStatus(rs, st) == Cardinality({i \in 1..Len(rs) : rs[i].status = st})

\* The statuses of the records, in order.
Statuses(rs) == [i \in 1..Len(rs) |-> rs[i].status]

DeviceNameSet == {DeviceNames[i] : i \in 1..Len(DeviceNames)}
InterfaceNameSet == {InterfaceNames[i] : i \in 1..Len(InterfaceNames)}
NeighborIdSet == {NeighborIds[i] : i \in 1..Len(NeighborIds)}

\* The neighbors of interface i of device d in tree T.
NeighborsOf(T, d, i) == Get(T[d][i], "neighbors", EmptyMap)

\* The neighbor leaves of a tree: device, interface, neighbor id.
Leaves(T) ==
    {l \in DeviceNameSet \X InterfaceNameSet \X NeighborIdSet :
        /\ l[1] \in DOMAIN T
        /\ l[2] \in DOMAIN T[l[1]]
        /\ l[3] \in DOMAIN NeighborsOf(T, l[1], l[2])}

\* The attribute under test of a leaf, "None" when the leaf lacks it.
LeafValue(T, l) == Get(NeighborsOf(T, l[1], l[2])[l[3]], Attribute, "None")

\* The PASSED record of a neighbor whose value matches.
ValueMatch(l, value) ==
    Result(PASSED, Message("Neighbor IP address matches expected", "", "", l[3], "", value))

\* The FAILED record of a neighbor whose value does not match.
ValueMismatch(l, expected_value, value) ==
    Result(FAILED, Message("IP address does not match expected", "", l[2], l[3],
                           expected_value, value))

\* C15: reflexivity: comparing a tree with itself appends no FAILED record,
\* also when a neighbor of the tree lacks the attribute under test.
C15_ComparatorIsReflexive ==
    (pc = "compared" /\ expected_parameters = JsonDict(current_state)) =>
        /\ CountStatus(results, FAILED) = 0
        /\ job_failed_calls = 0
        /\ exception = ""

\* C15 witness: a tree with a neighbor lacking the attribute and a device
\* with two neighbors was compared with itself.
C15_Witness ==
    /\ pc = "compared"
    /\ expected_parameters = JsonDict(current_state)
    /\ DOMAIN current_state = {"R1", "R2"}
    /\ current_state["R1"] = ("Gi0/1" :> InterfaceData("10.0.0.2" :> EmptyMap))
    /\ Cardinality({l \in Leaves(current_state) : l[1] = "R2"}) = 2
    /\ CountStatus(results, PASSED) >= 5

\* A and E have the same devices, interfaces and neighbors.
SameShape(A, E) ==
    /\ DOMAIN A = DOMAIN E
    /\ \A d \in DOMAIN E : DOMAIN A[d] = DOMAIN E[d]
    /\ Leaves(A) = Leaves(E)

\* The leaves of E whose attribute under test differs in A.
DifferingLeaves(A, E) == {l \in Leaves(E) : LeafValue(A, l) # LeafValue(E, l)}

SingleLeafMutation(A, E) ==
    SameShape(A, E) /\ Cardinality(DifferingLeaves(A, E)) = 1

Restrict(A, E) ==
    [d \in DOMAIN A \cap DOMAIN E |->
        [i \in DOMAIN A[d] \cap DOMAIN E[d] |->
            ("neighbors" :>
                [n \in DOMAIN NeighborsOf(A, d, i) \cap DOMAIN NeighborsOf(E, d, i) |->
                    NeighborsOf(A, d, i)[n]])]]

\* C17: one-directional contract: the devices, interfaces and neighbors of
\* the actual tree that the expected tree does not hold produce no record:
\* the comparator appends records of the same number and statuses as on the
\* actual tree without them, and every record names expected keys only.
C17_ExtraActualKeysProduceNoRecord ==
    pc = "compared" =>
        LET A == current_state
            E == expected_parameters.value
            pruned == compare_expected_parameters_to_current_state(
                          Restrict(A, E), expected_parameters)
        IN /\ Statuses(results) = Statuses(pruned.results)
           /\ job_failed_calls = pruned.failed
           /\ \A i \in 1..Len(results) :
                  /\ results[i].message.device \in DOMAIN E \cup {""}
                  /\ results[i].message.neighbor
                         \in {l[3] : l \in Leaves(E)} \cup {""}
                  /\ results[i].message.interface
                         \in UNION {DOMAIN E[d] : d \in DOMAIN E} \cup {""}

\* C17 witness: the actual tree holds a device and a neighbor the expected
\* tree does not; no record is FAILED.
C17_Witness ==
    /\ pc = "compared"
    /\ DOMAIN expected_parameters.value = {"R1"}
    /\ DOMAIN current_state = {"R1", "R2"}
    /\ Cardinality(Leaves(expected_parameters.value)) = 1
    /\ Cardinality(Leaves(current_state)) >= 3
    /\ Restrict(current_state, expected_parameters.value) # current_state
    /\ Len(results) = 4
    /\ CountStatus(results, FAILED) = 0

\* The expected devices missing from the actual tree.
MissingDevices(A, E) == DOMAIN E \ DOMAIN A

\* The expected interfaces missing under the devices that are present.
MissingInterfaces(A, E) ==
    {x \in DeviceNameSet \X InterfaceNameSet :
        /\ x[1] \in DOMAIN E \cap DOMAIN A
        /\ x[2] \in DOMAIN E[x[1]] \ DOMAIN A[x[1]]}

\* The expected interfaces that are present.
PresentInterfaces(A, E) ==
    {x \in DeviceNameSet \X InterfaceNameSet :
        /\ x[1] \in DOMAIN E \cap DOMAIN A
        /\ x[2] \in DOMAIN E[x[1]] \cap DOMAIN A[x[1]]}

\* The expected neighbors missing under the interfaces that are present.
MissingNeighbors(A, E) ==
    {l \in Leaves(E) : <<l[1], l[2]>> \in PresentInterfaces(A, E) /\ l \notin Leaves(A)}

\* The expected neighbors that are present with another value.
UnequalNeighbors(A, E) ==
    {l \in Leaves(E) \cap Leaves(A) : LeafValue(A, l) # LeafValue(E, l)}

\* The expected keys one pass visits: every device, every interface of a
\* present device, every neighbor of a present interface.
VisitedKeys(A, E) ==
    Cardinality(DOMAIN E)
    + Cardinality(MissingInterfaces(A, E)) + Cardinality(PresentInterfaces(A, E))
    + Cardinality({l \in Leaves(E) : <<l[1], l[2]>> \in PresentInterfaces(A, E)})

TestingRunOver == mode = "testing" /\ pc \in {"returned", "raised"}

\* Every device of the testbed returns a result.
AllDevicesAnswer == \A name \in TestbedNames : Succeeds(name)

\* C19 as stated: for every observed state, also one whose gathered tree is
\* empty, learning and then testing against the unchanged state ends the
\* testing run with aggregate status PASSED.
C19_RoundTripPasses ==
    TestingRunOver => (pc = "returned" /\ status(results) = PASSED)

\* C19 amended: for every observed state in which every device of the
\* testbed returns a result (also when no device has any OSPF neighbor),
\* learning and then testing against the unchanged state ends the testing
\* run with the baseline equal to the gathered tree, no FAILED record and
\* aggregate status PASSED; when some device returns no result, the testing
\* run ends with aggregate status FAILED.
C19_RoundTripPassesWhenAllDevicesAnswer ==
    TestingRunOver =>
        /\ pc = "returned"
        /\ IF AllDevicesAnswer
           THEN /\ expected_parameters = JsonDict(current_state)
                /\ CountStatus(results, FAILED) = 0
                /\ status(results) = PASSED
           ELSE status(results) = FAILED

\* C19 witness: the testing run returned PASSED on a testbed of a device
\* without OSPF interfaces and a device with two neighbors.
C19_Witness ==
    /\ mode = "testing"
    /\ pc = "returned"
    /\ Len(testbed) = 2
    /\ AllDevicesAnswer
    /\ devices["R1"].data = DataNoInterfaces
    /\ devices["R2"].data = DataTwoNeighbors
    /\ expected_parameters.value = ("R1" :> EmptyMap) @@ ("R2" :> DeviceTree(DataTwoNeighbors))
    /\ status(results) = PASSED

\* ------------------------------------- claims about the concurrent appends
\* The positions of the command executions recorded for the device.
ExecutionsOf(name) ==
    {i \in 1..Len(command_executions) : command_executions[i].device_name = name}

\* The tasks whose call of add_command_execution has completed.
RecordedTasks == {n \in DOMAIN futures : futures[n].state = "done"}

InfoNaming(rs, name) ==
    {i \in 1..Len(rs) : rs[i].status = INFO /\ rs[i].message.device = name}

\* C21 as stated: when run_command_on_devices returns its map, an INFO
\* result record has been appended to the result list for every device whose
\* execute and parse succeeded.
C21_InfoResultPerCompletion ==
    pc = "gather" =>
        \A name \in TestbedNames : Succeeds(name) => InfoNaming(results, name) # {}

\* C21 amended: as soon as a device's execute and parse have succeeded, and
\* so before run_command_on_devices returns its map, a command-execution
\* record of that completion (device, command, output, parsed data) is in the
\* collector's command-execution list; the dispatch appends no result record.
C21_CommandExecutionPerCompletion ==
    /\ \A name \in DOMAIN futures :
           futures[name].state = "done" =>
               \E i \in 1..Len(command_executions) :
                   command_executions[i] =
                       [device_name |-> name, command |-> Command,
                        output |-> RawOutput(name), data |-> devices[name].data]
    /\ pc \in {"dispatch", "gather"} => results = <<>>
    /\ pc = "gather" =>
           \A name \in TestbedNames : Succeeds(name) => futures[name].state = "done"

\* C21 witness: the first device's completion is recorded while the second
\* device's task is still running and the dispatch has not returned.
C21_Witness ==
    /\ pc = "dispatch"
    /\ Len(testbed) >= 2
    /\ futures["R1"].state = "done"
    /\ ~futures["R1"].handled
    /\ futures["R2"].state = "submitted"
    /\ Len(command_executions) = 1
    /\ command_executions[1].device_name = "R1"

\* The earlier list is a prefix of the later one.
IsPrefix(earlier, later) ==
    /\ Len(earlier) <= Len(later)
    /\ SubSeq(later, 1, Len(earlier)) = earlier

\* C22: the collector's result list is append-only. Every step of a run
\* (a task's add_command_execution, the dispatch, gather, compare, the
\* controller's verdict, the report's read of status) leaves the earlier
\* result list a prefix of the later one, and the step that reads status for
\* the report changes neither list of the collector.
C22_ResultListIsAppendOnly ==
    [][/\ IsPrefix(results, results')
       /\ report' # report => UNCHANGED <<results, command_executions>>]_vars

\* C22 witness: gather, compare and the controller have each appended, a
\* FAILED record sits before the terminal one, and status has been read.
C22_Witness ==
    /\ report.generated
    /\ Len(results) >= 4
    /\ command_executions # <<>>
    /\ \E i \in 1..(Len(results) - 1) : results[i].status = FAILED
    /\ report.status = FAILED
    /\ report.results = results

\* ------------------------------------ claims about what failure records name
\* The FAILED records with the given message.
FailedWith(rs, text) ==
    {i \in 1..Len(rs) : rs[i].status = FAILED /\ rs[i].message.text = text}

\* C23 as stated: every FAILED record the comparator appends for an unequal
\* attribute names the device, the interface, the neighbor identifier, the
\* expected value and the actual value; every FAILED record for a missing
\* interface or neighbor names the device and the missing key.
C23_FailureRecordsNameTheirSubject ==
    pc = "compared" =>
        /\ \A i \in FailedWith(results, "IP address does not match expected") :
               /\ results[i].message.device \in DeviceNameSet
               /\ results[i].message.interface \in InterfaceNameSet
               /\ results[i].message.neighbor \in NeighborIdSet
               /\ results[i].message.expected # ""
               /\ results[i].message.actual # ""
        /\ \A i \in FailedWith(results, "Interface not found in current state for device") :
               /\ results[i].message.device \in DeviceNameSet
               /\ results[i].message.interface \in InterfaceNameSet
        /\ \A i \in FailedWith(results, "Neighbor not found in current state") :
               /\ results[i].message.device \in DeviceNameSet
               /\ results[i].message.neighbor \in NeighborIdSet

\* --------------------------------------------- claims about the report's inputs
\* The terminal verdicts handle_test_execution_mode appends in testing mode.
IsTestingVerdict(r) ==
    \/ r = Result(FAILED, NoExpectedParameters)
    \/ r = Result(PASSED, Validated)
    \/ /\ Compared.raised # ""
       /\ r = Result(FAILED, PlainMessage(Compared.raised))

CountRecords(rs) ==
    {k \in 1..Len(rs) :
        rs[k].status = INFO /\ rs[k].message.text = "Found neighbors, expecting"}

\* The records about one neighbor.
NeighborRecords(rs) ==
    {k \in 1..Len(rs) :
        rs[k].message.text \in {"Neighbor not found in current state",
                                "IP address does not match expected",
                                "Neighbor IP address matches expected"}}

\* The device the comparator was walking when it appended record k.
DeviceAt(rs, k) ==
    LET found == {j \in 1..k :
                     rs[j].message.text = "Found expected device in current state"}
    IN IF found = {} THEN ""
       ELSE rs[CHOOSE j \in found : \A m \in found : m <= j].message.device

\* The count records appended for interface x[2] of device x[1].
CountRecordsOf(rs, x) ==
    {k \in CountRecords(rs) :
        /\ k > 1
        /\ rs[k - 1] = Result(PASSED, Message("Found expected interface",
                                              "", x[2], "", "", ""))
        /\ DeviceAt(rs, k) = x[1]}

C28_DeviceCallsAreNeverRepeated ==
    /\ \A name \in DOMAIN futures :
           /\ execute_calls[name] = (IF futures[name].state = "submitted" THEN 0 ELSE 1)
           /\ parse_calls[name] =
                  (IF futures[name].state \in {"submitted", "executed"}
                      \/ devices[name].execute_raises
                   THEN 0 ELSE 1)
           /\ parse_calls[name] = 1 =>
                  /\ ~devices[name].execute_raises
                  /\ futures[name].output = RawOutput(name)
    /\ pc \notin {"collector", "start", "dispatch"} =>
           \A name \in TestbedNames :
               /\ execute_calls[name] = 1
               /\ parse_calls[name] = (IF devices[name].execute_raises THEN 0 ELSE 1)

\* C28 witness: the dispatch has returned with one device whose execute
\* raised and one whose parse raised; neither call was made again.
C28_Witness ==
    /\ pc = "gather"
    /\ Len(testbed) >= 2
    /\ devices["R1"].execute_raises
    /\ ~devices["R2"].execute_raises /\ devices["R2"].parse_raises
    /\ execute_calls["R1"] = 1 /\ parse_calls["R1"] = 0
    /\ execute_calls["R2"] = 1 /\ parse_calls["R2"] = 1

\* --------------------------------------------------- claims about determinism
\* The dispatch map the device behaviours alone determine.
DispatchOf(names) ==
    [n \in names |->
        IF Succeeds(n)
        THEN CommandExecutionResult(n, Command, RawOutput(n), devices[n].data)
        ELSE None]

\* The gather the testbed order and the device behaviours alone determine.
GatherOf ==
    GatherLoop(GatherState(EmptyMap, <<>>, 0), testbed, DispatchOf(TestbedNames), 1)

\* C29: for fixed device outputs and a fixed baseline the records of gather
\* followed by the comparator are one sequence, whatever the interleaving
\* and completion order of the per-device tasks: gather's records and tree
\* follow the testbed order, the comparator's the baseline's key order.
C29_RecordsIndependentOfCompletionOrder ==
    (/\ pc \in {"branch", "compare", "returned", "raised"}
     /\ exception # NoWorkersError) =>
        /\ current_state = GatherOf.tree
        /\ IsPrefix(GatherOf.results, results)
        /\ CallCount("comparison_callable") = 1 =>
               SubSeq(results, 1, Len(results) - 1) =
                   GatherOf.results
                   \o compare_expected_parameters_to_current_state(
                          GatherOf.tree,
                          load_parameters_from_file(parameters_file).value).results

\* C29 witness: the second device's task completed before the first one's,
\* and gather and a comparator that appended records have run.
C29_Witness ==
    /\ pc = "returned"
    /\ CallCount("comparison_callable") = 1
    /\ Len(command_executions) = 2
    /\ command_executions[1].device_name = "R2"
    /\ command_executions[2].device_name = "R1"
    /\ Compared.results # <<>>
    /\ results[1].message.device = "R1"

\* ----------------------------------------------- claims about gather's records
\* The device-level records of gather_current_state that name the device.
DeviceLevelRecords(rs, name) ==
    {i \in 1..Len(rs) :
        /\ rs[i].message.device = name
        /\ rs[i].message.text \in {"No OSPF data found for device",
                                   "No OSPF interfaces found on",
                                   "Successfully gathered OSPF data from"}}

ParsedInterfaces(name) == Get(dispatch_results[name].data, "interfaces", EmptyMap)

\* C31: in the tree gather_current_state builds, every neighbor's attribute
\* map has exactly one key, the attribute under test, holding the parsed
\* value or the empty string when the parsed data lacks it, and the
\* interfaces of a device in the tree are the parsed interfaces that list at
\* least one neighbor, each with exactly its parsed neighbors.
C31_TreeHoldsOnlyTheAttributeUnderTest ==
    pc = "gathered" =>
        \A name \in DOMAIN current_state :
            /\ DOMAIN current_state[name] =
                   {ifn \in DOMAIN ParsedInterfaces(name) :
                       HasNeighbors(ParsedInterfaces(name)[ifn])}
            /\ \A ifn \in DOMAIN current_state[name] :
                   LET parsed == ParsedInterfaces(name)[ifn]["neighbors"]
                       kept == current_state[name][ifn]
                   IN /\ DOMAIN kept = {"neighbors"}
                      /\ DOMAIN kept["neighbors"] = DOMAIN parsed
                      /\ DOMAIN parsed # {}
                      /\ \A id \in DOMAIN parsed :
                             /\ DOMAIN kept["neighbors"][id] = {Attribute}
                             /\ kept["neighbors"][id][Attribute] =
                                    (IF Attribute \in DOMAIN parsed[id]
                                     THEN parsed[id][Attribute] ELSE "")

\* C31 witness: one device whose parsed neighbor carries priority and state
\* next to the address and whose second interface lists no neighbor, one
\* device whose neighbor lacks the address.
C31_Witness ==
    /\ pc = "gathered"
    /\ Len(testbed) >= 2
    /\ dispatch_results["R1"] = CommandExecutionResult("", Command, <<>>, DataRawPayload)
    /\ dispatch_results["R2"] =
           CommandExecutionResult("", Command, <<>>, DataRawPayloadWithoutAttribute)
    /\ DOMAIN current_state["R1"] = {"Gi0/1"}
    /\ current_state["R1"]["Gi0/1"]["neighbors"]["10.0.0.2"] = (Attribute :> "192.0.2.2")
    /\ current_state["R2"]["Gi0/2"]["neighbors"]["10.0.0.3"] = (Attribute :> "")

\* ------------------------------------------ claims about the value comparison
\* The one neighbor of the trees of SpecNeighbor.
TheLeaf == <<"R1", "Gi0/1", "10.0.0.2">>

\* The neighbor's attribute map in a tree.
AttributesOf(T) == NeighborsOf(T, "R1", "Gi0/1")["10.0.0.2"]

\* The status of the record about the neighbor's value.
ValueRecordStatus ==
    LET found == {k \in NeighborRecords(results) : results[k].message.neighbor = "10.0.0.2"}
    IN results[CHOOSE k \in found : TRUE].status

\* C32 as stated: for a neighbor present in both trees the record is PASSED
\* exactly when the expected and the actual value are identical, with no
\* coercion, and FAILED when the attribute is missing from exactly one of
\* the two attribute maps.
C32_PassedExactlyWhenIdentical ==
    pc = "compared" =>
        LET e == AttributesOf(expected_parameters.value)
            a == AttributesOf(current_state)
        IN /\ Cardinality(NeighborRecords(results)) = 1
           /\ (Attribute \in DOMAIN e /\ Attribute \in DOMAIN a) =>
                  (ValueRecordStatus = PASSED <=> e[Attribute] = a[Attribute])
           /\ ((Attribute \in DOMAIN e) # (Attribute \in DOMAIN a)) =>
                  ValueRecordStatus = FAILED

\* C32 amended: the record is PASSED exactly when the two values, a missing
\* attribute reading as None, are the same value of the same type or are
\* two numbers of the same numerical value (int 1, float 1.0 and true are
\* one number); otherwise it is FAILED. A number and its string form are
\* unequal; a missing attribute equals only a missing attribute or null.
C32_PassedExactlyWhenPythonEqual ==
    pc = "compared" =>
        LET e == LeafValue(expected_parameters.value, TheLeaf)
            a == LeafValue(current_state, TheLeaf)
        IN /\ Cardinality(NeighborRecords(results)) = 1
           /\ ValueRecordStatus \in {PASSED, FAILED}
           /\ ValueRecordStatus = PASSED <=>
                  \/ e = a
                  \/ {e, a} \subseteq {"#1", "#1.0", "#true"}
           /\ ({e, a} = {"1", "#1"}) => ValueRecordStatus = FAILED
           /\ (PyNone \in {e, a} /\ e # a) => ValueRecordStatus = FAILED

\* C32 witness: the expected value is the number 1 and the actual value the
\* string "1"; the comparator has appended FAILED.
C32_Witness ==
    /\ pc = "compared"
    /\ LeafValue(expected_parameters.value, TheLeaf) = "#1"
    /\ LeafValue(current_state, TheLeaf) = "1"
    /\ ValueRecordStatus = FAILED
    /\ job_failed_calls = 1

TerminalVerdicts ==
    {Result(PASSED, PlainMessage("Successfully learned parameters and saved to file")),
     Result(FAILED, PlainMessage("Failed to save parameters to file")),
     Result(FAILED, NoExpectedParameters),
     Result(PASSED, Validated),
     Result(FAILED, PlainMessage(NotAMappingError))}

\* The last record of the collector is a terminal verdict.
VerdictRecorded == results # <<>> /\ results[Len(results)] \in TerminalVerdicts

\* A device call of the dispatch has not returned yet.
DeviceCallPending ==
    \E name \in DOMAIN futures : futures[name].state \in {"submitted", "executed"}

\* C34 as stated, for a testbed with at least one device: when every device
\* call returns or raises, the invocation of handle_test_execution_mode
\* eventually terminates with its terminal verdict recorded; and as long as
\* a device call has not returned, the dispatch has not returned and no
\* terminal verdict is recorded.
C34_TerminatesWithVerdictUnlessBlocked ==
    /\ (testbed # <<>>) => <>(pc = "returned" /\ VerdictRecorded)
    /\ [](DeviceCallPending => (pc = "dispatch" /\ ~VerdictRecorded))

\* ------------------------------------------ claims about the exposed baseline
\* C35: in testing mode handle_test_execution_mode stores what it loaded as
\* the testbed adapter's parameters before the empty-baseline guard, so the
\* exposed baseline is what was loaded, also when the guard ends the run
\* (the empty mapping for a missing or malformed file, the stored document
\* otherwise); in learning mode, and before the load, the adapter's
\* parameters are the empty mapping it was created with.
C35_AdapterExposesTheLoadedBaseline ==
    /\ (mode = "learning" \/ CallCount("load_parameters_from_file") = 0) =>
           adapter_parameters = JsonDict(EmptyMap)
    /\ (mode = "testing" /\ CallCount("load_parameters_from_file") > 0) =>
           /\ parameters_file.kind # "json" => adapter_parameters = JsonDict(EmptyMap)
           /\ \A doc \in StoredDocuments :
                  parameters_file = FileWith(doc) => adapter_parameters = doc
           /\ adapter_parameters = expected_parameters

\* C35 witness: the file holds null; the guard ended the run with FAILED and
\* the adapter exposes the loaded None, not the mapping it started with.
C35_Witness ==
    /\ mode = "testing"
    /\ pc = "returned"
    /\ parameters_file = FileWith(JsonNull)
    /\ adapter_parameters = JsonNull
    /\ results[Len(results)] = Result(FAILED, NoExpectedParameters)
    /\ CallCount("comparison_callable") = 0

\* ------------------------------------------------ claims about the audit log
\* C36: when run_command_on_devices returns, the command-execution list has
\* exactly one entry for each device whose execute and parse both succeeded
\* and none for a device whose execute or parse raised, also when its
\* execute had succeeded.
C36_AuditLogHoldsSuccessesOnly ==
    pc = "gather" =>
        /\ \A name \in TestbedNames :
               Cardinality({i \in 1..Len(command_executions) :
                               command_executions[i].device_name = name}) =
                   (IF devices[name].execute_raises \/ devices[name].parse_raises
                    THEN 0 ELSE 1)
        /\ Len(command_executions) =
               Cardinality({name \in TestbedNames :
                               ~devices[name].execute_raises /\ ~devices[name].parse_raises})
        /\ \A name \in TestbedNames :
               (execute_calls[name] = 1 /\ devices[name].parse_raises) =>
                   \A i \in 1..Len(command_executions) :
                       command_executions[i].output # RawOutput(name)

\* C36 witness: the dispatch returned; the first device's execute succeeded
\* and its parse raised, the second device succeeded, and the list holds the
\* second device's entry alone.
C36_Witness ==
    /\ pc = "gather"
    /\ Len(testbed) >= 2
    /\ ~devices["R1"].execute_raises /\ devices["R1"].parse_raises
    /\ parse_calls["R1"] = 1
    /\ Succeeds("R2")
    /\ Len(command_executions) = 1
    /\ command_executions[1].device_name = "R2"

\* ------------------------------------------- claims about learning with failures
\* The testbed devices whose dispatch failed.
FailedDevices == {name \in TestbedNames : ~Succeeds(name)}

C38_AtMostOneCallableInvoked ==
    /\ CallCount("passing_callable") + CallCount("failing_callable") <= 1
    /\ (pc = "returned" /\ CallCount("passing_callable") = 1) =>
           results[Len(results)].status = PASSED
    /\ (pc = "returned" /\ CallCount("failing_callable") = 1) =>
           results[Len(results)].status = FAILED

\* ------------------------------ run_command_on_devices called directly
\* The arguments a caller may pass: a testbed of up to NumDevices devices
\* (possibly none), a single device, a list of devices (possibly empty).
TestbedArguments ==
    {NotGiven} \cup {Given(SubSeq(DeviceNames, 1, n)) : n \in 0..NumDevices}
DeviceArguments == {NotGiven, Given(<<"R4">>)}
DevicesArguments == {NotGiven, Given(<<>>), Given(<<"R4", "R1">>)}

\* What a targeted device does: execute raises, or execute and parse succeed.
TargetBehaviours ==
    {[execute_raises |-> TRUE, parse_raises |-> FALSE, data |-> EmptyMap],
     [execute_raises |-> FALSE, parse_raises |-> FALSE,
      data |-> DataOneNeighbor("192.0.2.2")]}

\* None of testbed, device and devices was passed.
NoTargetsGiven(args) ==
    ~args.testbed.given /\ ~args.device.given /\ ~args.devices.given

\* str(e) of the ValueError raised when no target was passed.
NoTargetError ==
    "No target devices specified to execute command 'show ip ospf neighbor' against"

\* The if/elif chain picking devices before device before testbed
\* (not the code).
target_devices_devices_first(args) ==
    IF args.devices.given THEN args.devices.value
    ELSE IF args.device.given THEN args.device.value
    ELSE args.testbed.value

\* target_devices: list(testbed), else [device], else devices.
target_devices(args) ==
    IF args.testbed.given THEN args.testbed.value
    ELSE IF args.device.given THEN args.device.value
    ELSE args.devices.value

\* The names of the selected devices.
TargetNames ==
    {target_devices(arguments)[i] : i \in 1..Len(target_devices(arguments))}

InitTargets ==
    /\ results = <<>>
    /\ command_executions = <<>>
    /\ pc = "call"
    /\ mode = "testing"
    /\ arguments \in [testbed : TestbedArguments, device : DeviceArguments,
                      devices : DevicesArguments]
    /\ testbed = arguments.testbed.value
    /\ devices \in [DeviceNameSet -> TargetBehaviours]
    /\ parameters_file = FileMissing
    /\ write_fails = "ok"
    /\ execute_calls = [n \in DeviceNameSet |-> 0]
    /\ parse_calls = [n \in DeviceNameSet |-> 0]
    /\ futures = [n \in {} |-> NoFuture]
    /\ dispatch_results = EmptyMap
    /\ current_state = EmptyMap
    /\ expected_parameters = JsonDict(EmptyMap)
    /\ adapter_parameters = JsonDict(EmptyMap)
    /\ calls = <<>>
    /\ job_failed_calls = 0
    /\ exception = ""
    /\ report = NoReport
    /\ connected = EmptyMap
    /\ callables = ReturningCallables

\* run_command_on_devices up to the submission of the tasks: the target
\* selection, then ThreadPoolExecutor(max_workers=len(target_devices)) and
\* one executor.submit per target.
RunCommandOnDevices ==
    /\ pc = "call"
    /\ IF NoTargetsGiven(arguments)
       THEN /\ pc' = "raised"
            /\ exception' = NoTargetError
            /\ UNCHANGED futures
       ELSE IF Len(target_devices(arguments)) = 0
       THEN /\ pc' = "raised"
            /\ exception' = NoWorkersError
            /\ UNCHANGED futures
       ELSE /\ pc' = "dispatch"
            /\ futures' = [n \in TargetNames |->
                               [state |-> "submitted", output |-> <<>>,
                                handled |-> FALSE]]
            /\ UNCHANGED exception
    /\ UNCHANGED <<collectorVars, inputVars, dispatch_results, execute_calls,
                   parse_calls, current_state, parameters_file,
                   expected_parameters, adapter_parameters, calls,
                   job_failed_calls, report>>

NextTargets ==
    \/ RunCommandOnDevices
    \/ \E name \in DeviceNameSet : TaskExecute(name)
    \/ \E name \in DeviceNameSet : TaskParse(name)
    \/ \E name \in DeviceNameSet : Collect(name)
    \/ DispatchReturn

SpecTargets == InitTargets /\ [][NextTargets]_vars

\* No device task has been started: nothing submitted, no device asked.
NoTaskStarted ==
    /\ DOMAIN futures = {}
    /\ \A n \in DeviceNameSet : execute_calls[n] = 0 /\ parse_calls[n] = 0

\* The first of testbed, device, devices that was passed.
FirstGiven ==
    IF arguments.testbed.given THEN arguments.testbed
    ELSE IF arguments.device.given THEN arguments.device
    ELSE arguments.devices

FirstGivenNames == {FirstGiven.value[i] : i \in 1..Len(FirstGiven.value)}

\* Without any target the call raises its ValueError and starts no task;
\* otherwise exactly the devices of the first given argument get a task
\* and, on return, an entry in the result map.
C39_SelectionAndPrecedence ==
    /\ NoTargetsGiven(arguments) =>
           /\ NoTaskStarted
           /\ pc \in {"call", "raised"}
           /\ pc = "raised" => exception = NoTargetError
    /\ ~NoTargetsGiven(arguments) =>
           /\ exception # NoTargetError
           /\ DOMAIN futures \in {{}, FirstGivenNames}
           /\ pc = "dispatch" => DOMAIN futures = FirstGivenNames
           /\ pc = "gather" => DOMAIN dispatch_results = FirstGivenNames

\* C39 as stated: run_command_on_devices raises a ValueError and starts no
\* device task when none of testbed, device and devices is given; testbed
\* takes precedence over device, and device over devices; when the selected
\* target set is empty it returns an empty map without raising.
C39_EmptyTargetSetReturnsEmptyMap ==
    /\ C39_SelectionAndPrecedence
    /\ (~NoTargetsGiven(arguments) /\ FirstGivenNames = {}) =>
           /\ pc # "raised"
           /\ NoTaskStarted

\* C39 amended: run_command_on_devices raises a ValueError and starts no
\* device task when none of testbed, device and devices is given; testbed
\* takes precedence over device, and device over devices; when the selected
\* target set is empty it raises the ValueError of a pool without workers
\* and starts no device task.
C39_EmptyTargetSetRaises ==
    /\ C39_SelectionAndPrecedence
    /\ (~NoTargetsGiven(arguments) /\ FirstGivenNames = {}) =>
           /\ NoTaskStarted
           /\ pc \in {"call", "raised"}
           /\ pc = "raised" => exception = NoWorkersError
           /\ dispatch_results = EmptyMap

\* A call given an empty testbed, a device and a list has raised for want of
\* workers without starting a task.
C39_Witness ==
    /\ arguments.testbed = Given(<<>>)
    /\ arguments.device.given
    /\ arguments.devices = Given(<<"R4", "R1">>)
    /\ pc = "raised"
    /\ exception = NoWorkersError
    /\ NoTaskStarted

====
